---- MODULE Spec2Model ----
(***************************************************************************)
(* TrailBlazer geometry engine: fillBlocks, the per-polygon pass           *)
(* processPolygonCoordinates, the process-wide holeCache and the Overpass  *)
(* lookup checkIfBlockHasStreets (utils/GeometryEngine).                   *)
(*                                                                         *)
(* JavaScript runs one task at a time: the synchronous part of a handler   *)
(* and the promise continuations it triggers run to completion before any  *)
(* other task.  A fillBlocks invocation is therefore suspended only while  *)
(* Overpass requests are in flight; an action is one task.                 *)
(*                                                                         *)
(* Rings are abstract values (integers).  An interior ring carries its     *)
(* area and centroid through the tables Area10, Lat6 and Lon6.             *)
(***************************************************************************)
EXTENDS Integers, Sequences, FiniteSets, TLC

VARIABLES holeCache, calls, scenario, merged, app

vars == <<holeCache, calls, scenario, merged, app>>

----------------------------------------------------------------------------
(* Bounds of the model *)

\* number of fillBlocks invocations the host makes in the general scenario
MaxInv == 2

\* number of size-eligible holes of the large polygon in the batch scenario
MaxMiss == 5

\* number of unit cells of the plane in the merge scenario
MaxCells == 3

(* Program constants *)

MinHoleArea == 50
MaxHoleArea == 5000000
BATCH_SIZE == 3
PART_STATUS_MIN == 5

----------------------------------------------------------------------------
(* Small helpers on sequences *)

Min(a, b) == IF a < b THEN a ELSE b

Range(s) == {s[k] : k \in 1..Len(s)}

\* integer ceiling of a / b, Math.ceil(a / b) for positive b
CeilDiv(a, b) == (a + b - 1) \div b

----------------------------------------------------------------------------
(* Rings: turf.area and turf.centroid of an interior ring.                 *)
(* Area10 is the area in tenths of a square metre, Lat6 and Lon6 are the   *)
(* centroid in millionths of a degree.                                     *)

Area10(h) ==
    CASE h = 1 -> 10000          \* 1,000.0 m2
      [] h = 2 -> 10004          \* 1,000.4 m2
      [] h = 3 -> 500            \* 50.0 m2: on the lower limit
      [] h = 4 -> 50000000       \* 5,000,000.0 m2: on the upper limit
      [] h = 5 -> 501            \* 50.1 m2
      [] h = 6 -> 49999999       \* 4,999,999.9 m2
      [] h = 7 -> 100000000      \* 10,000,000.0 m2
      [] OTHER -> 10000 + 1000 * h

Lat6(h) ==
    CASE h = 1 -> 25033000
      [] h = 2 -> 25033004
      [] OTHER -> 25033000 + 100 * h

Lon6(h) ==
    CASE h = 1 -> 121565000
      [] h = 2 -> 121565001
      [] OTHER -> 121565000

\* Number.prototype.toFixed(5) of a positive coordinate: 5 decimals
ToFixed5(x6) == (x6 + 5) \div 10

\* Math.round of a positive area
MathRound(a10) == (a10 + 5) \div 10

getHoleCacheKey(h) == <<ToFixed5(Lat6(h)), ToFixed5(Lon6(h)), MathRound(Area10(h))>>

\* variant: the lower limit taken as inclusive
SizeEligibleInclusive(h) == Area10(h) >= MinHoleArea * 10 /\ Area10(h) < MaxHoleArea * 10

\* the size test of processPolygonCoordinates
SizeEligible(h) == Area10(h) > MinHoleArea * 10 /\ Area10(h) < MaxHoleArea * 10

----------------------------------------------------------------------------
(* Geometries *)

NullGeometry == [type |-> "null", coordinates |-> <<>>]
Polygon(rings) == [type |-> "Polygon", coordinates |-> rings]
MultiPolygon(polys) == [type |-> "MultiPolygon", coordinates |-> polys]
LineString == [type |-> "LineString", coordinates |-> <<>>]

\* the polygons (ring lists) fillBlocks passes to processPolygonCoordinates
PolyList(g) ==
    CASE g.type = "Polygon" -> <<g.coordinates>>
      [] g.type = "MultiPolygon" -> g.coordinates
      [] OTHER -> <<>>

----------------------------------------------------------------------------
(* Events of one invocation, in order: the status messages handed to       *)
(* onStatusUpdate and the Overpass requests issued and answered.           *)

Ev(t, a, b, c) == [t |-> t, a |-> a, b |-> b, c |-> c]
B2N(b) == IF b THEN 1 ELSE 0

StAnalyzing == Ev("Analyzing", 0, 0, 0)
StPart(i, n) == Ev("Part", i, n, 0)
StFound(n) == Ev("Found", n, 0, 0)
StNoValid == Ev("NoValid", 0, 0, 0)
StCached(n) == Ev("Cached", n, 0, 0)
StChecking(n) == Ev("Checking", n, BATCH_SIZE, 0)
StBatch(num, total, len) == Ev("Batch", num, total, len)
StComplete(filled, kept) == Ev("Complete", filled, kept, 0)
EvCall(h, batchNum, globalIdx) == Ev("call", h, batchNum, globalIdx)
EvRet(h, hasStreets, failed) == Ev("ret", h, B2N(hasStreets), B2N(failed))

----------------------------------------------------------------------------
(* checkIfBlockHasStreets: the response of the Overpass request decides.   *)
(*   "elements": JSON with a non-empty elements array                      *)
(*   "empty":    JSON with no or an empty elements array                   *)
(*   "error":    fetch rejects or the body is not JSON                     *)

Responses == {"elements", "empty", "error"}

\* variant: no try/catch around the request
checkIfBlockHasStreetsNoCatch(resp) ==
    IF resp = "error"
    THEN [threw |-> TRUE, value |-> FALSE]
    ELSE [threw |-> FALSE, value |-> (resp = "elements")]

checkIfBlockHasStreets(resp) ==
    IF resp = "error"
    THEN [threw |-> FALSE, value |-> FALSE]        \* catch: assume no streets
    ELSE [threw |-> FALSE, value |-> (resp = "elements")]

----------------------------------------------------------------------------
(* One fillBlocks invocation.                                              *)
(*   pc       "idle" (not called yet), "batching" (awaiting Promise.all of  *)
(*            a batch), "done" (promise fulfilled), "rejected" (promise     *)
(*            rejected)                                                     *)
(*   geom, skip   the arguments; result: the geometry returned              *)
(*   p, newCoords the polygon loop of fillBlocks                            *)
(*   outerRing .. i   the locals of the processPolygonCoordinates pass that *)
(*            is suspended; slots: the members of the batch awaited         *)
(*   log      the events so far; passes: the passes finished so far;        *)
(*   seen     the invocations that had completed when this one was called   *)
(*   failSafe the fail-safe default the caller put in the options object;   *)
(*            fillBlocks takes skipStreetCheck out of the options and       *)
(*            reads nothing else                                            *)

IdleCall ==
    [pc |-> "idle", geom |-> NullGeometry, skip |-> FALSE, failSafe |-> FALSE,
     seen |-> {},
     p |-> 0, newCoords |-> <<>>,
     outerRing |-> 0, newHoles |-> <<>>, cachedResults |-> <<>>,
     uncachedData |-> <<>>, uncachedResults |-> <<>>, i |-> 0, slots |-> <<>>,
     passes |-> <<>>, log |-> <<>>, result |-> NullGeometry]

\* variant: the lookup never finds an entry
CacheHasNever(cache, key) == FALSE

\* holeCache.has(key)
CacheHas(cache, key) == key \in DOMAIN cache

\* variant: the negated answer is stored
CacheSetNegated(cache, key, value) ==
    [q \in DOMAIN cache \cup {key} |-> IF q = key THEN ~value ELSE cache[q]]

\* variant: the answer is not stored
CacheSetSkipped(cache, key, value) == cache

\* holeCache.set(key, value)
CacheSet(cache, key, value) ==
    [q \in DOMAIN cache \cup {key} |-> IF q = key THEN value ELSE cache[q]]

IsEligible(h) == SizeEligible(h)
IsRetained(h) == ~SizeEligible(h)

\* variant: the test of the deciding loop inverted
KeptHolesInverted(allResults) ==
    LET kept == SelectSeq(allResults, LAMBDA r : ~r.hasStreets)
    IN [k \in 1..Len(kept) |-> kept[k].hole]

\* the deciding loop: allResults = cachedResults ++ uncachedResults
KeptHoles(allResults) ==
    LET kept == SelectSeq(allResults, LAMBDA r : r.hasStreets)
    IN [k \in 1..Len(kept) |-> kept[k].hole]

FilledCount(allResults) == Len(SelectSeq(allResults, LAMBDA r : ~r.hasStreets))
KeptCount(allResults) == Len(SelectSeq(allResults, LAMBDA r : r.hasStreets))

\* variant: the two counts of the terminal status exchanged
DecideCountsSwapped(outerRing, newHoles, cachedResults, uncachedResults) ==
    LET allResults == cachedResults \o uncachedResults
    IN [rings |-> <<outerRing>> \o newHoles \o KeptHoles(allResults),
        all |-> allResults,
        log |-> <<StComplete(KeptCount(allResults), FilledCount(allResults))>>]

\* variant: the outer ring left out of the returned list
DecideNoOuter(outerRing, newHoles, cachedResults, uncachedResults) ==
    LET allResults == cachedResults \o uncachedResults
    IN [rings |-> newHoles \o KeptHoles(allResults),
        all |-> allResults,
        log |-> <<StComplete(FilledCount(allResults), KeptCount(allResults))>>]

\* variant: the kept holes put in front of the retained ones
DecideKeptFirst(outerRing, newHoles, cachedResults, uncachedResults) ==
    LET allResults == cachedResults \o uncachedResults
    IN [rings |-> <<outerRing>> \o KeptHoles(allResults) \o newHoles,
        all |-> allResults,
        log |-> <<StComplete(FilledCount(allResults), KeptCount(allResults))>>]

\* variant: the fresh results decided ahead of the cached ones
DecideFreshFirst(outerRing, newHoles, cachedResults, uncachedResults) ==
    LET allResults == uncachedResults \o cachedResults
    IN [rings |-> <<outerRing>> \o newHoles \o KeptHoles(allResults),
        all |-> allResults,
        log |-> <<StComplete(FilledCount(allResults), KeptCount(allResults))>>]

\* the end of a strict pass: decide every resolved candidate, emit the
\* terminal status, return the ring list
Decide(outerRing, newHoles, cachedResults, uncachedResults) ==
    LET allResults == cachedResults \o uncachedResults
    IN [rings |-> <<outerRing>> \o newHoles \o KeptHoles(allResults),
        all |-> allResults,
        log |-> <<StComplete(FilledCount(allResults), KeptCount(allResults))>>]

\* variant: the fast path adds back the holes the cache says have streets
FastPathRingsKeepCached(outerRing, newHoles, cachedResults) ==
    <<outerRing>> \o newHoles \o KeptHoles(cachedResults)

\* variant: the fast path adds back every hole the cache has an answer for
FastPathRingsKeepHits(outerRing, newHoles, cachedResults) ==
    <<outerRing>> \o newHoles \o [k \in 1..Len(cachedResults) |-> cachedResults[k].hole]

\* the return of the fast path: the valid holes are not added back
FastPathRings(outerRing, newHoles, cachedResults) == <<outerRing>> \o newHoles

\* variant: every remaining candidate in one batch
BatchOfRest(uncachedData, i) == SubSeq(uncachedData, i + 1, Len(uncachedData))

\* uncachedData.slice(i, i + BATCH_SIZE)
BatchOf(uncachedData, i) ==
    SubSeq(uncachedData, i + 1, Min(i + BATCH_SIZE, Len(uncachedData)))

\* variant: the requests of a batch are awaited one after the other
PendingInTurn(slots, idx) ==
    /\ idx \in 1..Len(slots)
    /\ ~slots[idx].done
    /\ \A j \in 1..(idx - 1) : slots[j].done

\* batch.map(async ...): every member of the batch has its own request, which
\* is answered independently of the others
Pending(slots, idx) ==
    /\ idx \in 1..Len(slots)
    /\ ~slots[idx].done

\* variant: the batch is taken as complete when its first member has answered
BatchSettledFirst(slots) == slots[1].done

\* variant: Promise.all never resolves
BatchSettledNever(slots) == FALSE

\* variant: the batch is taken as complete at its first answer
BatchSettledAny(slots) == \E j \in 1..Len(slots) : slots[j].done

\* Promise.all resolves once every member of the batch has resolved
BatchSettled(slots) == \A j \in 1..Len(slots) : slots[j].done

\* variant: the result of a pass put in front of the earlier ones
PushCoordsFront(newCoords, rings) == <<rings>> \o newCoords

\* newCoords.push(await processPolygonCoordinates(...))
PushCoords(newCoords, rings) == Append(newCoords, rings)

\* the record kept of a finished pass: input ring list, output ring list, the
\* candidates as decided
PassRecord(coords, rings, all, strict) ==
    [coords |-> coords, rings |-> rings, all |-> all, decided |-> strict]

\* variant: a ring list without holes goes through the terminal status
NoHolesReturnWithStatus(coords) ==
    [ret |-> TRUE, rings |-> coords, all |-> <<>>, decided |-> FALSE,
     log |-> <<StComplete(0, 0)>>,
     outerRing |-> 0, newHoles |-> <<>>, cachedResults |-> <<>>, uncachedData |-> <<>>]

\* if (coords.length <= 1) return coords
NoHolesReturn(coords) ==
    [ret |-> TRUE, rings |-> coords, all |-> <<>>, decided |-> FALSE, log |-> <<>>,
     outerRing |-> 0, newHoles |-> <<>>, cachedResults |-> <<>>, uncachedData |-> <<>>]

\* processPolygonCoordinates up to its first await (or to its return)
PassSync(coords, cache, skip) ==
    IF Len(coords) <= 1
    THEN NoHolesReturn(coords)
    ELSE
    LET outerRing == coords[1]
        holes == Tail(coords)
        log1 == IF Len(holes) > 0 /\ ~skip THEN <<StFound(Len(holes))>> ELSE <<>>
        validHoles == SelectSeq(holes, IsEligible)
        newHoles == SelectSeq(holes, IsRetained)
        hits == SelectSeq(validHoles, LAMBDA h : CacheHas(cache, getHoleCacheKey(h)))
        misses == SelectSeq(validHoles, LAMBDA h : ~CacheHas(cache, getHoleCacheKey(h)))
        cachedResults == [k \in 1..Len(hits) |->
                            [hole |-> hits[k], hasStreets |-> cache[getHoleCacheKey(hits[k])],
                             cached |-> TRUE]]
        uncachedData == [k \in 1..Len(misses) |->
                            [hole |-> misses[k], cacheKey |-> getHoleCacheKey(misses[k])]]
        log2 == IF Len(cachedResults) > 0 THEN <<StCached(Len(cachedResults))>> ELSE <<>>
        d == Decide(outerRing, newHoles, cachedResults, <<>>)
    IN  IF Len(validHoles) = 0
        THEN [ret |-> TRUE, rings |-> <<outerRing>> \o newHoles, all |-> <<>>,
              decided |-> FALSE, log |-> log1 \o <<StNoValid>>,
              outerRing |-> outerRing, newHoles |-> newHoles,
              cachedResults |-> <<>>, uncachedData |-> <<>>]
        ELSE IF skip
        THEN [ret |-> TRUE, rings |-> FastPathRings(outerRing, newHoles, cachedResults),
              all |-> <<>>, decided |-> FALSE, log |-> log1,
              outerRing |-> outerRing, newHoles |-> newHoles,
              cachedResults |-> cachedResults, uncachedData |-> uncachedData]
        ELSE IF Len(uncachedData) = 0
        THEN [ret |-> TRUE, rings |-> d.rings, all |-> d.all, decided |-> TRUE,
              log |-> log1 \o log2 \o d.log,
              outerRing |-> outerRing, newHoles |-> newHoles,
              cachedResults |-> cachedResults, uncachedData |-> uncachedData]
        ELSE [ret |-> FALSE, rings |-> <<>>, all |-> <<>>, decided |-> FALSE,
              log |-> log1 \o log2 \o <<StChecking(Len(uncachedData))>>,
              outerRing |-> outerRing, newHoles |-> newHoles,
              cachedResults |-> cachedResults, uncachedData |-> uncachedData]

\* variant: the status message of a batch follows its requests
StartBatchMessageLast(r) ==
    LET n == Len(r.uncachedData)
        batch == BatchOf(r.uncachedData, r.i)
        batchNum == (r.i \div BATCH_SIZE) + 1
        totalBatches == CeilDiv(n, BATCH_SIZE)
    IN [r EXCEPT !.pc = "batching",
                 !.slots = [k \in 1..Len(batch) |->
                              [data |-> batch[k], done |-> FALSE, hasStreets |-> FALSE]],
                 !.log = r.log
                           \o [k \in 1..Len(batch) |-> EvCall(batch[k].hole, batchNum, r.i + k)]
                           \o <<StBatch(batchNum, totalBatches, Len(batch))>>]

\* one iteration of the batch loop up to its await Promise.all: the status
\* message, then one request per member of the batch
StartBatch(r) ==
    LET n == Len(r.uncachedData)
        batch == BatchOf(r.uncachedData, r.i)
        batchNum == (r.i \div BATCH_SIZE) + 1
        totalBatches == CeilDiv(n, BATCH_SIZE)
    IN [r EXCEPT !.pc = "batching",
                 !.slots = [k \in 1..Len(batch) |->
                              [data |-> batch[k], done |-> FALSE, hasStreets |-> FALSE]],
                 !.log = r.log \o <<StBatch(batchNum, totalBatches, Len(batch))>>
                           \o [k \in 1..Len(batch) |-> EvCall(batch[k].hole, batchNum, r.i + k)]]

\* fillBlocks from polygon r.p on, until a pass awaits its first batch or the
\* last polygon is done
RECURSIVE RunPolygons(_, _)
RunPolygons(r, cache) ==
    LET polys == PolyList(r.geom)
        n == Len(polys)
    IN  IF r.p > n
        THEN [r EXCEPT !.pc = "done",
                       !.result = IF r.geom.type = "Polygon"
                                  THEN Polygon(r.newCoords[1])
                                  ELSE MultiPolygon(r.newCoords)]
        ELSE
        LET part == IF r.geom.type = "MultiPolygon" /\ ~r.skip /\ n > PART_STATUS_MIN
                    THEN <<StPart(r.p, n)>> ELSE <<>>
            s == PassSync(polys[r.p], cache, r.skip)
        IN  IF s.ret
            THEN RunPolygons([r EXCEPT !.p = r.p + 1,
                                       !.newCoords = PushCoords(r.newCoords, s.rings),
                                       !.passes = Append(r.passes,
                                            PassRecord(polys[r.p], s.rings, s.all, s.decided)),
                                       !.log = r.log \o part \o s.log], cache)
            ELSE StartBatch([r EXCEPT !.outerRing = s.outerRing,
                                      !.newHoles = s.newHoles,
                                      !.cachedResults = s.cachedResults,
                                      !.uncachedData = s.uncachedData,
                                      !.uncachedResults = <<>>,
                                      !.i = 0,
                                      !.log = r.log \o part \o s.log])

\* fillBlocks up to its first await
fillBlocks(geometry, skip, seen, cache) ==
    IF geometry.type = "null"
    THEN [IdleCall EXCEPT !.pc = "done", !.geom = geometry, !.skip = skip,
                          !.seen = seen, !.result = geometry]
    ELSE
    LET r0 == [IdleCall EXCEPT !.geom = geometry, !.skip = skip, !.seen = seen,
                               !.p = 1,
                               !.log = IF skip THEN <<>> ELSE <<StAnalyzing>>]
    IN  IF geometry.type \in {"Polygon", "MultiPolygon"}
        THEN RunPolygons(r0, cache)
        ELSE [r0 EXCEPT !.pc = "done", !.result = geometry]

\* the continuation of Promise.all once every member of the batch has
\* resolved: next batch, or decide, return and go on with the next polygon
JoinBatch(r, cache) ==
    LET results == [k \in 1..Len(r.slots) |->
                      [hole |-> r.slots[k].data.hole,
                       hasStreets |-> r.slots[k].hasStreets, cached |-> FALSE]]
        r1 == [r EXCEPT !.uncachedResults = r.uncachedResults \o results,
                        !.i = r.i + BATCH_SIZE, !.slots = <<>>]
        d == Decide(r1.outerRing, r1.newHoles, r1.cachedResults, r1.uncachedResults)
        polys == PolyList(r.geom)
    IN  IF r1.i < Len(r1.uncachedData)
        THEN StartBatch(r1)
        ELSE RunPolygons([r1 EXCEPT !.p = r.p + 1,
                                    !.newCoords = PushCoords(r.newCoords, d.rings),
                                    !.passes = Append(r.passes,
                                         PassRecord(polys[r.p], d.rings, d.all, TRUE)),
                                    !.log = r.log \o d.log], cache)


----------------------------------------------------------------------------
(* mergeAreas.  An area is the set of unit cells it covers, on a line of   *)
(* MaxCells cells: a Polygon when the cells are contiguous, a MultiPolygon *)
(* otherwise.  turf.union either returns a Feature, returns null or        *)
(* throws.                                                                 *)

Cells == 1..MaxCells

Contiguous(cells) ==
    \A a, b \in cells : \A c \in Cells : (a < c /\ c < b) => c \in cells

Area(cells) ==
    [type |-> IF Contiguous(cells) THEN "Polygon" ELSE "MultiPolygon",
     coordinates |-> cells]

\* turf.feature(geometry)
Feature(g) == [type |-> "Feature", geometry |-> g]

UnionOutcomes == {"ok", "null", "throw"}

\* turf.union(turf.featureCollection([turf.feature(a), turf.feature(b)]))
turfUnion(a, b, outcome) ==
    CASE outcome = "ok" ->
             [threw |-> FALSE, value |-> Feature(Area(a.coordinates \cup b.coordinates))]
      [] outcome = "null" -> [threw |-> FALSE, value |-> NullGeometry]
      [] OTHER -> [threw |-> TRUE, value |-> NullGeometry]

\* variant: no early return for an absent existing area, on which the union
\* throws
mergeAreasNoFirstImport(existingArea, newPolygon, outcome) ==
    LET newGeom == IF newPolygon.type = "Feature" THEN newPolygon.geometry ELSE newPolygon
        existingGeom == IF existingArea.type = "Feature"
                        THEN existingArea.geometry ELSE existingArea
        u == turfUnion(existingGeom, newGeom,
                       IF existingArea.type = "null" THEN "throw" ELSE outcome)
    IN  IF u.threw
        THEN [value |-> existingGeom, unionCalled |-> TRUE, raised |-> FALSE]
        ELSE [value |-> IF u.value.type # "null" THEN u.value.geometry ELSE newGeom,
              unionCalled |-> TRUE, raised |-> FALSE]

\* variant: the catch block returns the new polygon
mergeAreasCatchNew(existingArea, newPolygon, outcome) ==
    LET newGeom == IF newPolygon.type = "Feature" THEN newPolygon.geometry ELSE newPolygon
    IN  IF existingArea.type = "null"
        THEN [value |-> newGeom, unionCalled |-> FALSE, raised |-> FALSE]
        ELSE
        LET existingGeom == IF existingArea.type = "Feature"
                            THEN existingArea.geometry ELSE existingArea
            u == turfUnion(existingGeom, newGeom, outcome)
        IN  IF u.threw
            THEN [value |-> newGeom, unionCalled |-> TRUE, raised |-> FALSE]
            ELSE [value |-> IF u.value.type # "null" THEN u.value.geometry ELSE newGeom,
                  unionCalled |-> TRUE, raised |-> FALSE]

\* variant: the arguments are used as they come, wrapped or not
mergeAreasNoUnwrap(existingArea, newPolygon, outcome) ==
    IF existingArea.type = "null"
    THEN [value |-> newPolygon, unionCalled |-> FALSE, raised |-> FALSE]
    ELSE
    LET newGeom == IF newPolygon.type = "Feature" THEN newPolygon.geometry ELSE newPolygon
        existingGeom == IF existingArea.type = "Feature"
                        THEN existingArea.geometry ELSE existingArea
        u == turfUnion(existingGeom, newGeom, outcome)
    IN  IF u.threw
        THEN [value |-> existingArea, unionCalled |-> TRUE, raised |-> FALSE]
        ELSE [value |-> IF u.value.type # "null" THEN u.value.geometry ELSE newPolygon,
              unionCalled |-> TRUE, raised |-> FALSE]

\* mergeAreas(existingArea, newPolygon); outcome is what turf.union does
mergeAreas(existingArea, newPolygon, outcome) ==
    LET newGeom == IF newPolygon.type = "Feature" THEN newPolygon.geometry ELSE newPolygon
    IN  IF existingArea.type = "null"
        THEN [value |-> newGeom, unionCalled |-> FALSE, raised |-> FALSE]
        ELSE
        LET existingGeom == IF existingArea.type = "Feature"
                            THEN existingArea.geometry ELSE existingArea
            u == turfUnion(existingGeom, newGeom, outcome)
        IN  IF u.threw
            THEN [value |-> existingGeom, unionCalled |-> TRUE, raised |-> FALSE]
            ELSE [value |-> IF u.value.type # "null" THEN u.value.geometry ELSE newGeom,
                  unionCalled |-> TRUE, raised |-> FALSE]

\* the areas of the merge scenario, bare and wrapped in a Feature
Areas == {Area(c) : c \in (SUBSET Cells) \ {{}}}
MergeNew == Areas \cup {Feature(g) : g \in Areas}
MergeExisting == {NullGeometry} \cup MergeNew

\* no call of mergeAreas yet
NoMerge ==
    [called |-> FALSE, existingArea |-> NullGeometry, newPolygon |-> NullGeometry,
     outcome |-> "ok",
     out |-> [value |-> NullGeometry, unionCalled |-> FALSE, raised |-> FALSE]]

----------------------------------------------------------------------------
(* The host (App), the file input (FileUpload), DrawControl and GPSControl. *)
(* The explored area is an area over the cells, as for mergeAreas; a cell   *)
(* that is not covered and lies between covered cells stands for a block    *)
(* the covered cells enclose, that is, for an interior ring of the area.    *)
(* A path is the sequence of the cells of its points.                       *)

\* points of a stroke, a GPS path or an uploaded track that are followed
MaxPts == 2

\* timers and fill passes of the host that are pending at once
MaxPending == 1

\* the points processAndUpdate needs to do anything
MIN_POINTS == 2

\* turf.buffer of the line through the points
bufferPath(points) == Area(Range(points))

EnclosedCells(cells) ==
    {c \in Cells \ cells : \E a, b \in cells : a < c /\ c < b}

HolesOfArea(g) == IF g.type = "null" THEN {} ELSE EnclosedCells(g.coordinates)

\* the geometry fillBlocks resolves to: the enclosed blocks are filled, but
\* for those the Oracle finds streets in (none on the fast path)
Filled(g, streets) ==
    IF g.type = "null" THEN g
    ELSE Area(g.coordinates \cup (EnclosedCells(g.coordinates) \ streets))

\* mergeAreas with a union that succeeds
Merge(existingArea, newPolygon) == mergeAreas(existingArea, newPolygon, "ok").value

SameGeometry(a, b) ==
    /\ a.type = b.type
    /\ a.type # "null" => a.coordinates = b.coordinates

RECURSIVE SortedSeq(_)
SortedSeq(S) ==
    IF S = {} THEN <<>>
    ELSE LET m == CHOOSE x \in S : \A y \in S : x <= y
         IN  <<m>> \o SortedSeq(S \ {m})

\* JSON.stringify: the text of a value, as the sequence of its tokens
RECURSIVE JSONStringify(_)
JSONStringify(v) ==
    CASE v.type = "FeatureCollection" ->
             <<"FeatureCollection", [k \in 1..Len(v.features) |-> JSONStringify(v.features[k])]>>
      [] v.type = "Feature" ->
             <<"Feature", v.properties, JSONStringify(v.geometry)>>
      [] v.type \in {"Polygon", "MultiPolygon"} ->
             <<v.type, SortedSeq(v.coordinates)>>
      [] OTHER -> <<v.type, v.coordinates>>

\* JSON.parse
RECURSIVE JSONParse(_)
JSONParse(text) ==
    CASE text[1] = "FeatureCollection" ->
             [type |-> "FeatureCollection",
              features |-> [k \in 1..Len(text[2]) |-> JSONParse(text[2][k])]]
      [] text[1] = "Feature" ->
             [type |-> "Feature", properties |-> text[2], geometry |-> JSONParse(text[3])]
      [] text[1] \in {"Polygon", "MultiPolygon"} ->
             [type |-> text[1], coordinates |-> Range(text[2])]
      [] OTHER -> [type |-> text[1], coordinates |-> text[2]]

\* handleExport: the text of the file that is downloaded
ExportText(clearedArea) ==
    JSONStringify([type |-> "Feature", properties |-> "TrailBlazer - Cleared Area",
                   geometry |-> clearedArea])

\* variant: a Feature is handed over as it is
ParseGeoJSONFileNoWrap(text) == JSONParse(text)

\* FileUpload.handleFileChange, .geojson and .json files: what is handed to
\* onFileLoaded
ParseGeoJSONFile(text) ==
    LET geoJson == JSONParse(text)
    IN  IF geoJson.type = "Feature"
        THEN [type |-> "FeatureCollection", features |-> <<geoJson>>]
        ELSE geoJson

\* handleFileLoaded, fileType 'geojson': the geometry of the first feature
ImportedGeometry(geoJson) ==
    IF /\ geoJson.type = "FeatureCollection"
       /\ Len(geoJson.features) > 0
       /\ geoJson.features[1].geometry.type \in {"Polygon", "MultiPolygon"}
    THEN geoJson.features[1].geometry
    ELSE NullGeometry

(* The state of the host and of the two controls, in the variable app:      *)
(*   clearedArea  the explored area (App state)                             *)
(*   isDrawing, isGPS   the two modes (App state)                           *)
(*   file         the text of the last exported file                        *)
(*   reading      the FileReader at work: the file and the onFileLoaded it  *)
(*                will call, that is, the explored area of its closure      *)
(*   timers       the pending auto-fill timers, each with the merged area   *)
(*   fills        the fill passes awaiting the Oracle: who started it, its  *)
(*                input, skipStreetCheck, whether the refs of the           *)
(*                DrawControl that started it are still those in use        *)
(*   dProp        the clearedArea the handlers of DrawControl close over    *)
(*   dBase, dPts, dOn, dTimer   baseAreaRef, pathPointsRef, isDrawingRef    *)
(*                and longPressTimerRef of DrawControl                      *)
(*   mouse        the mouse button                                          *)
(*   gBase, gPts  baseAreaRef and pathPointsRef of GPSControl               *)
(*   status       statusMessage (App state), by the call that set it        *)
(*   achievements unlockedAchievements (App state)                          *)
(* and, for the properties only:                                            *)
(*   stale        (of a timer or fill pass) the explored area was changed   *)
(*                after its input was taken                                 *)
(*   pts          (of a fill pass) the cells of the points of its path      *)
(*   sBase, sPts  the base area and the points of the stroke in progress    *)
(*   session      the cells of the strokes delivered in this draw session   *)
(*   last         the last step: its kind, the explored area before it, the *)
(*                geometry it delivered or started a pass on, and of the    *)
(*                fill pass that ended or started: stale, skipStreetCheck,  *)
(*                points, and live: the component that started it is still  *)
(*                mounted, and n: the blocks the pass filled                *)

Step(kind, prev, arg) ==
    [kind |-> kind, prev |-> prev, arg |-> arg, stale |-> FALSE, skip |-> FALSE,
     live |-> TRUE, pts |-> {}, n |-> 0]

NoStep == Step("none", NullGeometry, NullGeometry)

AppIdle ==
    [clearedArea |-> NullGeometry, isDrawing |-> FALSE, isGPS |-> FALSE,
     file |-> <<>>, reading |-> <<>>, timers |-> <<>>, fills |-> <<>>,
     dProp |-> NullGeometry, dBase |-> NullGeometry, dPts |-> <<>>,
     dOn |-> FALSE, dTimer |-> "none", mouse |-> "up",
     gBase |-> NullGeometry, gPts |-> <<>>,
     status |-> "start", achievements |-> {},
     sBase |-> NullGeometry, sPts |-> <<>>, session |-> {}, last |-> NoStep]

RemoveAt(seq, i) == SubSeq(seq, 1, i - 1) \o SubSeq(seq, i + 1, Len(seq))

\* unlockAchievement(id): the updater runs in the render that follows the
\* handler; when the achievement is new its message replaces the status the
\* handler set
unlockAchievement(a, id) ==
    IF id \in a.achievements THEN a
    ELSE [a EXCEPT !.achievements = @ \cup {id}, !.status = "unlocked " \o id]

\* handleStatusUpdate(msg): the status is shown, and a final status of a
\* pass that filled a block unlocks first_fill
handleStatusUpdate(a, msg, filledCount) ==
    LET a1 == [a EXCEPT !.status = msg]
    IN  IF msg = "complete" /\ filledCount > 0
        THEN unlockAchievement(a1, "first_fill")
        ELSE a1

\* handleDrawUpdate, after setClearedArea
handleDrawUpdate(a, newGeometry) ==
    IF newGeometry.type # "null" THEN unlockAchievement(a, "first_draw") ELSE a

\* setClearedArea(g): the pending timers and passes took their input before
SetClearedArea(a, g) ==
    LET changed == ~SameGeometry(a.clearedArea, g)
    IN [a EXCEPT !.clearedArea = g,
                 !.timers = [k \in 1..Len(a.timers) |->
                               [a.timers[k] EXCEPT !.stale = @ \/ changed]],
                 !.fills = [k \in 1..Len(a.fills) |->
                               [a.fills[k] EXCEPT !.stale = @ \/ changed]]]

FillPass(src, input, skip, pts) ==
    [src |-> src, input |-> input, skip |-> skip, pts |-> Range(pts),
     live |-> TRUE, stale |-> FALSE]

\* the callers that hand fillBlocks a status callback: handleFileLoaded
\* (handleStatusUpdate) and handleScanBlocks (a function that sets the
\* status); DrawControl and GPSControl pass `() => {}`
StatusCallers == {"upload", "reload", "rescan"}
UnlockingCallers == {"upload", "reload"}

\* the status the continuation of a caller sets after fillBlocks
DoneStatus(src) ==
    CASE src = "upload" -> "Processing complete. Blocks filled if streets not found."
      [] src = "reload" -> "Loaded area re-scanned and updated."
      [] src = "rescan" -> "Scan complete."

\* the status the catch of a caller sets
ErrorStatus(src) ==
    CASE src = "upload" -> "Track uploaded. Error checking blocks (network issue?)."
      [] src = "reload" -> "Progress loaded. Error re-scanning blocks."
      [] src = "rescan" -> "Error checking blocks."

BlocksFilled(input, filled) ==
    IF input.type = "null" THEN 0
    ELSE Cardinality(filled.coordinates \ input.coordinates)

\* the status callbacks of the end of a pass and the status of the
\* continuation: the final status of fillBlocks comes with a pass that had
\* blocks to decide
EndStatus(a, pass, filled) ==
    IF pass.src \notin StatusCallers THEN a
    ELSE LET done == [a EXCEPT !.status = DoneStatus(pass.src)]
             told == IF HolesOfArea(pass.input) = {} THEN a
                     ELSE IF pass.src \in UnlockingCallers
                          THEN handleStatusUpdate(a, "complete",
                                                  BlocksFilled(pass.input, filled))
                          ELSE [a EXCEPT !.status = "complete"]
         IN  IF told.achievements # a.achievements
             THEN [done EXCEPT !.achievements = told.achievements,
                               !.status = told.status]
             ELSE done

\* the continuation of `await fillBlocks(...)` in the caller that started the
\* pass: the result is put in place
Deliver(a, pass, filled) ==
    LET a1 == SetClearedArea(a,
                  IF pass.src \in UnlockingCallers
                  THEN JSONParse(JSONStringify(filled))
                  ELSE filled)
        a2 == IF pass.src = "draw"
              THEN [a1 EXCEPT !.session = @ \cup pass.pts,
                              !.dPts = IF pass.live THEN <<>> ELSE @,
                              !.dBase = IF pass.live THEN NullGeometry ELSE @]
              ELSE a1
        a3 == IF pass.src \in StatusCallers
              THEN EndStatus(a2, pass, filled)
              ELSE handleDrawUpdate(a2, filled)
    IN [a3 EXCEPT !.last = [Step(pass.src, a.clearedArea, filled)
                               EXCEPT !.stale = pass.stale, !.skip = pass.skip,
                                      !.live = pass.live, !.pts = pass.pts,
                                      !.n = BlocksFilled(pass.input, filled)]]

\* variant: the catch puts the area back to none
RejectClearsArea(a, pass) ==
    [SetClearedArea(a, NullGeometry)
        EXCEPT !.status = IF pass.src \in StatusCallers THEN ErrorStatus(pass.src) ELSE @,
               !.last = [Step(pass.src \o "Error", a.clearedArea, pass.input)
                           EXCEPT !.stale = pass.stale]]

\* fillBlocks rejects: the catch of handleFileLoaded and handleScanBlocks
\* sets a status; processAndUpdate has no catch, its caller stops at the await
Reject(a, pass) ==
    [a EXCEPT !.status = IF pass.src \in StatusCallers THEN ErrorStatus(pass.src) ELSE @,
              !.last = [Step(pass.src \o "Error", a.clearedArea, pass.input)
                          EXCEPT !.stale = pass.stale, !.skip = pass.skip,
                                 !.live = pass.live, !.pts = pass.pts]]

\* `await fillBlocks(input, ...)`: without an enclosed block no request is
\* sent and the caller goes on in the same task
BeginFill(a, pass) ==
    IF HolesOfArea(pass.input) = {}
    THEN Deliver(a, pass, Filled(pass.input, {}))
    ELSE [a EXCEPT !.fills = Append(@, pass),
                   !.status = IF pass.src \in StatusCallers THEN "progress" ELSE @,
                   !.last = [Step("pass", a.clearedArea, pass.input)
                               EXCEPT !.skip = pass.skip, !.pts = pass.pts]]

\* handleFileLoaded for a track file: the track is buffered and merged, the
\* area shown, the auto-fill timer set
handleFileLoadedTrack(a, closureArea, track) ==
    IF Len(track) = 0
    THEN [a EXCEPT !.status = "No valid tracks found.",
                   !.last = Step("noTrack", a.clearedArea, NullGeometry)]
    ELSE LET mergedArea == Merge(closureArea, bufferPath(track))
             a1 == SetClearedArea(a, mergedArea)
             a2 == unlockAchievement(
                       [a1 EXCEPT !.status = "Track visible. Checking for closed loops in 1 second..."],
                       "first_draw")
         IN [a2 EXCEPT !.timers = Append(@, [src |-> "upload", input |-> mergedArea,
                                             stale |-> FALSE]),
                       !.last = Step("track", a.clearedArea, mergedArea)]

\* handleFileLoaded for a saved file
handleFileLoadedGeoJSON(a, closureArea, geoJson) ==
    LET importedGeometry == ImportedGeometry(geoJson)
    IN  IF importedGeometry.type = "null"
        THEN [a EXCEPT !.status = "Invalid GeoJSON format. Expected Polygon or MultiPolygon.",
                       !.last = Step("invalid", a.clearedArea, NullGeometry)]
        ELSE LET mergedArea == IF closureArea.type # "null"
                               THEN Merge(closureArea, importedGeometry)
                               ELSE importedGeometry
                 a1 == SetClearedArea(a, mergedArea)
                 a2 == unlockAchievement(
                           [a1 EXCEPT !.status = "Progress loaded successfully!"],
                           "first_draw")
             IN [a2 EXCEPT !.timers = Append(@, [src |-> "reload", input |-> mergedArea,
                                                 stale |-> FALSE]),
                           !.last = Step("import", a.clearedArea, importedGeometry)]

\* processAndUpdate(points, {shouldFill: false}) of either control
UpdateNoFill(a, base, points, kind) ==
    IF Len(points) < MIN_POINTS THEN a
    ELSE LET mergedArea == Merge(base, bufferPath(points))
             a1 == handleDrawUpdate(SetClearedArea(a, mergedArea), mergedArea)
         IN [a1 EXCEPT !.session = IF kind = "drawUpdate" THEN @ \cup Range(points) ELSE @,
                       !.last = [Step(kind, a.clearedArea, mergedArea)
                                   EXCEPT !.pts = Range(points)]]

\* variant: the last update of GPSControl takes the fast path
GPSCleanupFastPath(a) ==
    LET a1 == IF Len(a.gPts) >= MIN_POINTS
              THEN BeginFill(a, [FillPass("gps", Merge(a.gBase, bufferPath(a.gPts)),
                                          TRUE, a.gPts) EXCEPT !.live = FALSE])
              ELSE a
    IN [a1 EXCEPT !.gPts = <<>>, !.gBase = NullGeometry]

\* the cleanup of the effect of GPSControl
GPSCleanup(a) ==
    LET a1 == IF Len(a.gPts) >= MIN_POINTS
              THEN BeginFill(a, [FillPass("gps", Merge(a.gBase, bufferPath(a.gPts)),
                                          FALSE, a.gPts) EXCEPT !.live = FALSE])
              ELSE a
    IN [a1 EXCEPT !.gPts = <<>>, !.gBase = NullGeometry]

\* the cleanup of the effect of DrawControl: the refs and the handlers, with
\* the clearedArea they closed over, go with the component
DrawCleanup(a) ==
    [a EXCEPT !.dTimer = "none", !.dOn = FALSE, !.dPts = <<>>,
              !.dBase = NullGeometry, !.dProp = NullGeometry, !.mouse = "up",
              !.sBase = NullGeometry, !.sPts = <<>>,
              !.fills = [k \in 1..Len(a.fills) |->
                           [a.fills[k] EXCEPT !.live = FALSE]]]

\* the render after the modes changed: a control that is no longer shown is
\* cleaned up, one that is newly shown runs its effect
Render(a, isDrawing, isGPS) ==
    LET drawWas == a.isDrawing /\ ~a.isGPS
        gpsWas == a.isGPS /\ ~a.isDrawing
        drawIs == isDrawing /\ ~isGPS
        gpsIs == isGPS /\ ~isDrawing
        a1 == [a EXCEPT !.isDrawing = isDrawing, !.isGPS = isGPS,
                        !.last = Step("mode", a.clearedArea, NullGeometry)]
        a2 == IF drawWas /\ ~drawIs THEN DrawCleanup(a1) ELSE a1
        a3 == IF gpsWas /\ ~gpsIs THEN GPSCleanup(a2) ELSE a2
        a4 == IF drawIs /\ ~drawWas
              THEN [a3 EXCEPT !.dProp = a.clearedArea, !.session = {}]
              ELSE a3
    IN  IF gpsIs /\ ~gpsWas THEN [a4 EXCEPT !.gBase = a.clearedArea] ELSE a4

\* the mouseup handler of DrawControl, up to its await
mouseup(a) ==
    LET a1 == [a EXCEPT !.dTimer = "none",
                        !.last = Step("mouseup", a.clearedArea, NullGeometry)]
    IN  IF ~a.dOn THEN a1
        ELSE LET a2 == [a1 EXCEPT !.dOn = FALSE, !.sBase = NullGeometry, !.sPts = <<>>]
             IN  IF Len(a.dPts) >= MIN_POINTS
                 THEN BeginFill(a2, FillPass("draw", Merge(a.dBase, bufferPath(a.dPts)),
                                             FALSE, a.dPts))
                 ELSE [a2 EXCEPT !.dPts = <<>>, !.dBase = NullGeometry]

----------------------------------------------------------------------------
(* Inputs *)

\* a call of the host: the geometry and the options object, whose property
\* failSafe no caller of the repository sets
CallWith(geometry, skip, failSafe) ==
    [geometry |-> geometry, skipStreetCheck |-> skip, failSafe |-> failSafe]

Call(geometry, skip) == CallWith(geometry, skip, FALSE)

GeneralInputs ==
    { Call(Polygon(<<0, 1>>), FALSE),
      Call(Polygon(<<0, 1, 2>>), FALSE),
      Call(Polygon(<<0, 5, 3, 1, 4>>), FALSE),
      Call(Polygon(<<0, 5, 3, 1, 4>>), TRUE),
      Call(MultiPolygon(<< <<0, 6, 7>>, <<-1, 2>> >>), FALSE) }

BigPolygon == Polygon(<<0>> \o [k \in 1..MaxMiss |-> 7 + k] \o <<3>>)

ManyParts == MultiPolygon([k \in 1..(PART_STATUS_MIN + 1) |->
                              IF k = 2 THEN <<-k, 8, 4>> ELSE <<-k>>])

\* an area of two parts: the second has two holes of the first, in the
\* other order, each behind a hole of its own
MixedHoles == MultiPolygon(<< <<0, 8, 9>>, <<-1, 10, 9, 11, 8>> >>)

BatchInputs ==
    { Call(NullGeometry, FALSE),
      Call(MixedHoles, FALSE),
      Call(LineString, FALSE),
      Call(Polygon(<<0>>), FALSE),
      Call(Polygon(<<>>), FALSE),
      Call(BigPolygon, FALSE),
      Call(BigPolygon, TRUE),
      Call(ManyParts, FALSE),
      Call(ManyParts, TRUE),
      CallWith(Polygon(<<0, 8, 9>>), FALSE, TRUE) }

\* an area of three parts: the second and third have a hole an earlier part
\* had, the third two holes of one key
SharedHoles == MultiPolygon(<< <<0, 8>>, <<-1, 8, 9>>, <<-2, 9, 1, 2>> >>)

FairInputs ==
    { Call(SharedHoles, FALSE),
      Call(SharedHoles, TRUE),
      Call(BigPolygon, FALSE),
      Call(Polygon(<<0>>), FALSE) }

\* the calls the host makes in the scenario at hand
Inputs ==
    CASE scenario = "general" -> GeneralInputs
      [] scenario = "fair" -> FairInputs
      [] OTHER -> BatchInputs

Inv == DOMAIN calls

----------------------------------------------------------------------------
(* Initial states *)

Init ==
    /\ holeCache = <<>>
    /\ calls = [k \in 1..MaxInv |-> IdleCall]
    /\ scenario = "general"
    /\ merged = NoMerge
    /\ app = AppIdle

InitBatch ==
    /\ holeCache = <<>>
    /\ calls = [k \in 1..1 |-> IdleCall]
    /\ scenario = "batch"
    /\ merged = NoMerge
    /\ app = AppIdle

InitFair ==
    /\ holeCache = <<>>
    /\ calls = [k \in 1..1 |-> IdleCall]
    /\ scenario = "fair"
    /\ merged = NoMerge
    /\ app = AppIdle

InitMerge ==
    /\ holeCache = <<>>
    /\ calls = <<>>
    /\ scenario = "merge"
    /\ merged = NoMerge
    /\ app = AppIdle

----------------------------------------------------------------------------
(* Actions *)

Done(k) == calls[k].pc = "done"

\* the host calls fillBlocks(geometry, onStatusUpdate, {skipStreetCheck})
StartFill(k, geometry, skip, failSafe) ==
    /\ calls[k].pc = "idle"
    /\ \A j \in Inv : j < k => calls[j].pc # "idle"
    /\ calls' = [calls EXCEPT ![k] =
                    [fillBlocks(geometry, skip, {j \in Inv : Done(j)}, holeCache)
                        EXCEPT !.failSafe = failSafe]]
    /\ UNCHANGED <<holeCache, scenario, merged, app>>

\* the Overpass request of member idx of the current batch is answered (or
\* fails): the result is cached, and the last answer of a batch resumes the pass
OracleReturn(k, idx, resp) ==
    /\ calls[k].pc \in {"batching", "rejected"}
    /\ Pending(calls[k].slots, idx)
    /\ LET r == calls[k]
           out == checkIfBlockHasStreets(resp)
           data == r.slots[idx].data
           cache1 == IF out.threw THEN holeCache
                     ELSE CacheSet(holeCache, data.cacheKey, out.value)
           r1 == [r EXCEPT !.slots[idx].done = TRUE,
                           !.slots[idx].hasStreets = out.value,
                           !.log = Append(r.log, EvRet(data.hole, out.value, resp = "error"))]
       IN /\ holeCache' = cache1
          /\ calls' = [calls EXCEPT ![k] =
                IF out.threw THEN [r1 EXCEPT !.pc = "rejected"]
                ELSE IF r.pc = "batching" /\ BatchSettled(r1.slots)
                THEN JoinBatch(r1, cache1)
                ELSE r1]
    /\ UNCHANGED <<scenario, merged, app>>

\* a caller merges a new polygon into an area (one call is followed)
MergeAreas(existingArea, newPolygon, outcome) ==
    /\ ~merged.called
    /\ merged' = [called |-> TRUE, existingArea |-> existingArea,
                  newPolygon |-> newPolygon, outcome |-> outcome,
                  out |-> mergeAreas(existingArea, newPolygon, outcome)]
    /\ UNCHANGED <<holeCache, calls, scenario, app>>

Next ==
    \/ \E k \in Inv, c \in Inputs :
          StartFill(k, c.geometry, c.skipStreetCheck, c.failSafe)
    \/ \E k \in Inv, idx \in 1..BATCH_SIZE, resp \in Responses : OracleReturn(k, idx, resp)

Spec == Init /\ [][Next]_vars

SpecBatch == InitBatch /\ [][Next]_vars

\* every request that was sent is answered or fails in the end: fetch settles
OracleAnswers(idx) == \E resp \in Responses : OracleReturn(1, idx, resp)

\* the request of member idx of the batch is in flight
InFlightAt(idx) ==
    /\ calls[1].pc \in {"batching", "rejected"}
    /\ Pending(calls[1].slots, idx)

\* weak fairness of OracleAnswers(idx), with the guard of the action written
\* out: a request does not stay in flight for ever
SpecFair ==
    /\ InitFair
    /\ [][Next]_vars
    /\ \A idx \in 1..BATCH_SIZE :
          \/ []<>(~InFlightAt(idx))
          \/ []<><<OracleAnswers(idx)>>_vars

NextMerge ==
    \E e \in MergeExisting, n \in MergeNew, o \in UnionOutcomes : MergeAreas(e, n, o)

SpecMerge == InitMerge /\ [][NextMerge]_vars

----------------------------------------------------------------------------
(* The host and the controls: files, initial states, actions *)

File(kind, track, text) == [kind |-> kind, track |-> track, text |-> text]

\* the tracks of the files: none, a point at either end, a line around the
\* blocks between the ends
Tracks == {<<>>, <<1>>, <<MaxCells>>, <<1, MaxCells>>}

\* a GeoJSON file that is no saved progress
LineFile ==
    JSONStringify([type |-> "FeatureCollection",
                   features |-> <<[type |-> "Feature", properties |-> "track",
                                   geometry |-> LineString]>>])

\* the files the user has: tracks, a line file, and the file exported last
Files ==
    {File("gpx", t, <<>>) : t \in Tracks}
      \cup {File("geojson", <<>>, LineFile)}
      \cup (IF app.file = <<>> THEN {} ELSE {File("geojson", <<>>, app.file)})

PendingCount == Len(app.timers) + Len(app.fills)

DrawMounted == app.isDrawing /\ ~app.isGPS
GPSMounted == app.isGPS /\ ~app.isDrawing

StartAreas == {NullGeometry, Area({1})}

InitHost ==
    /\ holeCache = <<>>
    /\ calls = <<>>
    /\ scenario = "host"
    /\ merged = NoMerge
    /\ app = AppIdle

InitDraw ==
    /\ holeCache = <<>>
    /\ calls = <<>>
    /\ scenario = "draw"
    /\ merged = NoMerge
    /\ \E g \in StartAreas : app = [AppIdle EXCEPT !.clearedArea = g]

InitGPS ==
    /\ holeCache = <<>>
    /\ calls = <<>>
    /\ scenario = "gps"
    /\ merged = NoMerge
    /\ \E g \in StartAreas : app = [AppIdle EXCEPT !.clearedArea = g]

\* FileUpload.handleFileChange: the reader is started; its onload will call
\* the onFileLoaded of this render
ChooseFile(f) ==
    /\ app.reading = <<>>
    /\ PendingCount < MaxPending
    /\ app' = [app EXCEPT !.reading = <<[file |-> f, closure |-> app.clearedArea]>>,
                          !.last = Step("choose", app.clearedArea, NullGeometry)]
    /\ UNCHANGED <<holeCache, calls, scenario, merged>>

\* reader.onload: the file is parsed and handed to handleFileLoaded
FileRead ==
    /\ app.reading # <<>>
    /\ LET f == app.reading[1].file
           closureArea == app.reading[1].closure
           a == [app EXCEPT !.reading = <<>>]
       IN app' = IF f.kind = "gpx"
                 THEN handleFileLoadedTrack(a, closureArea, f.track)
                 ELSE handleFileLoadedGeoJSON(a, closureArea, ParseGeoJSONFile(f.text))
    /\ UNCHANGED <<holeCache, calls, scenario, merged>>

\* the auto-fill timer of handleFileLoaded fires: a strict pass on the merged
\* area of the upload
TimerFire(i) ==
    /\ i \in 1..Len(app.timers)
    /\ LET t == app.timers[i]
           a == [app EXCEPT !.timers = RemoveAt(@, i)]
       IN app' = BeginFill(a, [FillPass(t.src, t.input, FALSE, <<>>)
                                  EXCEPT !.stale = t.stale])
    /\ UNCHANGED <<holeCache, calls, scenario, merged>>

\* the last Oracle answer of a pass arrives: fillBlocks resolves. The answers
\* of a pass are any the Oracle can give; that holeCache repeats an answer
\* in a later pass of the same page load is not followed here
FillDone(i, streets) ==
    /\ i \in 1..Len(app.fills)
    /\ streets \subseteq HolesOfArea(app.fills[i].input)
    /\ app.fills[i].skip => streets = {}
    /\ app' = Deliver([app EXCEPT !.fills = RemoveAt(@, i)], app.fills[i],
                      Filled(app.fills[i].input, streets))
    /\ UNCHANGED <<holeCache, calls, scenario, merged>>

\* fillBlocks of a pass rejects (an exception of the geometry library in a
\* later part of the area)
FillReject(i) ==
    /\ i \in 1..Len(app.fills)
    /\ app' = Reject([app EXCEPT !.fills = RemoveAt(@, i)], app.fills[i])
    /\ UNCHANGED <<holeCache, calls, scenario, merged>>

\* handleScanBlocks
ReScan ==
    /\ PendingCount < MaxPending
    /\ app' = IF app.clearedArea.type = "null"
              THEN [app EXCEPT !.status = "No cleared area to scan.",
                               !.last = Step("noArea", app.clearedArea, NullGeometry)]
              ELSE BeginFill([app EXCEPT !.status = "Re-scanning for closed loops..."],
                             FillPass("rescan", app.clearedArea, FALSE, <<>>))
    /\ UNCHANGED <<holeCache, calls, scenario, merged>>

\* handleClear
Clear ==
    /\ app' = [SetClearedArea(app, NullGeometry)
                  EXCEPT !.status = "Map cleared.",
                         !.last = Step("clear", app.clearedArea, NullGeometry)]
    /\ UNCHANGED <<holeCache, calls, scenario, merged>>

\* handleExport
Export ==
    /\ app' = IF app.clearedArea.type = "null"
              THEN [app EXCEPT !.status = "No explored area to export.",
                               !.last = Step("noArea", app.clearedArea, NullGeometry)]
              ELSE [app EXCEPT !.file = ExportText(app.clearedArea),
                               !.status = "Progress saved successfully!",
                               !.last = Step("export", app.clearedArea, app.clearedArea)]
    /\ UNCHANGED <<holeCache, calls, scenario, merged>>

\* variant: the Draw Path button leaves the GPS mode alone
ToggleDrawKeepsGPS ==
    /\ PendingCount < MaxPending
    /\ app' = Render([app EXCEPT !.status = IF app.isDrawing THEN "Draw mode OFF."
                                             ELSE "Draw mode ON."],
                     ~app.isDrawing, app.isGPS)
    /\ UNCHANGED <<holeCache, calls, scenario, merged>>

\* the Draw Path button
ToggleDraw ==
    /\ PendingCount < MaxPending
    /\ app' = Render([app EXCEPT !.status = IF app.isDrawing THEN "Draw mode OFF."
                                             ELSE "Draw mode ON."],
                     ~app.isDrawing, IF app.isGPS THEN FALSE ELSE app.isGPS)
    /\ UNCHANGED <<holeCache, calls, scenario, merged>>

\* the GPS button
ToggleGPS ==
    /\ PendingCount < MaxPending
    /\ app' = Render([app EXCEPT !.status = IF app.isGPS THEN "GPS Tracking OFF."
                                             ELSE "GPS Tracking ON."],
                     IF app.isDrawing THEN FALSE ELSE app.isDrawing, ~app.isGPS)
    /\ UNCHANGED <<holeCache, calls, scenario, merged>>

\* mousedown on the map, left button
MouseDown ==
    /\ DrawMounted
    /\ app.mouse = "up"
    /\ app' = [app EXCEPT !.mouse = "down", !.dBase = app.dProp, !.dTimer = "pending",
                          !.sBase = app.dProp,
                          !.last = Step("mousedown", app.clearedArea, app.dProp)]
    /\ UNCHANGED <<holeCache, calls, scenario, merged>>

\* the long-press timer fires: the stroke starts at the point of the mousedown
LongPress(c) ==
    /\ DrawMounted
    /\ app.dTimer = "pending"
    /\ app' = [app EXCEPT !.dTimer = "fired", !.dOn = TRUE, !.dPts = <<c>>,
                          !.sPts = <<c>>,
                          !.last = Step("longpress", app.clearedArea, NullGeometry)]
    /\ UNCHANGED <<holeCache, calls, scenario, merged>>

\* mousemove: before the long press a large move cancels it; during a stroke
\* the point is recorded and, the throttle permitting, an update is delivered
MouseMove(c, far, throttled) ==
    /\ DrawMounted
    /\ IF app.dTimer # "none" /\ ~app.dOn
       THEN /\ far
            /\ app' = [app EXCEPT !.dTimer = "none",
                                  !.last = Step("cancel", app.clearedArea, NullGeometry)]
       ELSE /\ app.dOn
            /\ Len(app.dPts) < MaxPts
            /\ LET a == [app EXCEPT !.dPts = Append(@, c), !.sPts = Append(@, c),
                                    !.last = Step("mousemove", app.clearedArea, NullGeometry)]
               IN app' = IF throttled THEN a
                         ELSE UpdateNoFill(a, a.dBase, a.dPts, "drawUpdate")
    /\ UNCHANGED <<holeCache, calls, scenario, merged>>

\* mouseup on the map
MouseUp ==
    /\ DrawMounted
    /\ app.mouse = "down"
    /\ PendingCount < MaxPending
    /\ app' = mouseup([app EXCEPT !.mouse = "up"])
    /\ UNCHANGED <<holeCache, calls, scenario, merged>>

\* mouseleave: a stroke in progress ends as on mouseup, a pending long press
\* is cancelled
MouseLeave ==
    /\ DrawMounted
    /\ app.dOn \/ app.dTimer = "pending"
    /\ PendingCount < MaxPending
    /\ app' = mouseup(app)
    /\ UNCHANGED <<holeCache, calls, scenario, merged>>

\* a position of watchPosition: recorded when it is not the last point again
Position(c, throttled) ==
    /\ GPSMounted
    /\ Len(app.gPts) < MaxPts
    /\ app.gPts # <<>> => app.gPts[Len(app.gPts)] # c
    /\ LET a == [app EXCEPT !.gPts = Append(@, c),
                            !.last = Step("position", app.clearedArea, NullGeometry)]
       IN app' = IF throttled THEN a
                 ELSE UpdateNoFill(a, a.gBase, a.gPts, "gpsUpdate")
    /\ UNCHANGED <<holeCache, calls, scenario, merged>>

NextHost ==
    \/ \E f \in Files : ChooseFile(f)
    \/ FileRead
    \/ \E i \in 1..MaxPending : TimerFire(i)
    \/ \E i \in 1..MaxPending, streets \in SUBSET Cells : FillDone(i, streets)
    \/ \E i \in 1..MaxPending : FillReject(i)
    \/ ReScan
    \/ Clear
    \/ Export

SpecHost == InitHost /\ [][NextHost]_vars

NextDraw ==
    \/ ToggleDraw
    \/ MouseDown
    \/ \E c \in Cells : LongPress(c)
    \/ \E c \in Cells, far, throttled \in BOOLEAN : MouseMove(c, far, throttled)
    \/ MouseUp
    \/ MouseLeave
    \/ \E i \in 1..MaxPending, streets \in SUBSET Cells : FillDone(i, streets)
    \/ \E i \in 1..MaxPending : FillReject(i)

SpecDraw == InitDraw /\ [][NextDraw]_vars

NextGPS ==
    \/ ToggleGPS
    \/ ToggleDraw
    \/ \E c \in Cells, throttled \in BOOLEAN : Position(c, throttled)
    \/ \E i \in 1..MaxPending, streets \in SUBSET Cells : FillDone(i, streets)
    \/ \E i \in 1..MaxPending : FillReject(i)
    \/ Clear

SpecGPS == InitGPS /\ [][NextGPS]_vars

----------------------------------------------------------------------------
(* Vocabulary of the properties *)

\* the size band, stated on the area in tenths of a square metre
InBand(h) == Area10(h) > 500 /\ Area10(h) < 50000000

HolesOf(coords) == IF Len(coords) <= 1 THEN <<>> ELSE Tail(coords)

InBandHoles(coords) == {h \in Range(HolesOf(coords)) : InBand(h)}

CallPositions(k) == {j \in 1..Len(calls[k].log) : calls[k].log[j].t = "call"}
RetPositions(k) == {j \in 1..Len(calls[k].log) : calls[k].log[j].t = "ret"}

NumCalls(k) == Cardinality(CallPositions(k))
InFlight(k) == Cardinality(CallPositions(k)) - Cardinality(RetPositions(k))

\* Oracle calls issued so far, in the whole process, for one spatial key
KeyCallsOf(k, key) ==
    Cardinality({j \in CallPositions(k) : getHoleCacheKey(calls[k].log[j].a) = key})

RECURSIVE KeyCallsUpTo(_, _)
KeyCallsUpTo(n, key) ==
    IF n = 0 THEN 0 ELSE KeyCallsOf(n, key) + KeyCallsUpTo(n - 1, key)

KeyCalls(key) == KeyCallsUpTo(Cardinality(Inv), key)

QueriedKeys ==
    UNION {{getHoleCacheKey(calls[k].log[j].a) : j \in CallPositions(k)} : k \in Inv}

PassesOf(k) == {calls[k].passes[q] : q \in 1..Len(calls[k].passes)}

\* the answers a finished pass decided a hole with
AnswersFor(ps, h) == {ps.all[m].hasStreets : m \in {n \in 1..Len(ps.all) : ps.all[n].hole = h}}

----------------------------------------------------------------------------
(* C1: in every pass, strict or fast-path, a hole of area <= 50 m2 or      *)
(* >= 5,000,000 m2 is in the output ring list and no Oracle call is issued *)
(* for it; only holes inside the band are queried or dropped.              *)
C1_OutOfBandRetained ==
    \A k \in Inv :
        /\ \A j \in CallPositions(k) : InBand(calls[k].log[j].a)
        /\ \A ps \in PassesOf(k) :
              \A h \in Range(HolesOf(ps.coords)) :
                  ~InBand(h) => h \in Range(HolesOf(ps.rings))

\* a strict pass queried the Oracle, dropped a hole of the band and returned
\* a hole on each limit of the band
C1_Witness ==
    \E k \in Inv :
        /\ Done(k) /\ ~calls[k].skip /\ NumCalls(k) > 0
        /\ \E ps \in PassesOf(k) :
              /\ \E h \in Range(HolesOf(ps.rings)) : Area10(h) = 500
              /\ \E h \in Range(HolesOf(ps.rings)) : Area10(h) = 50000000
              /\ \E h \in InBandHoles(ps.coords) : h \notin Range(ps.rings)

(* C2: with skipStreetCheck = true, fillBlocks drops every size-eligible   *)
(* hole and issues no Oracle call, whatever the geometry and the cache.    *)
C2_FastPathDropsAll ==
    \A k \in Inv :
        calls[k].skip =>
            /\ NumCalls(k) = 0
            /\ calls[k].pc \in {"idle", "done"}
            /\ \A ps \in PassesOf(k) :
                  \A h \in InBandHoles(ps.coords) : h \notin Range(ps.rings)

\* a fast-path pass has dropped a hole the cache holds hasStreets = true for
C2_Witness ==
    \E k \in Inv :
        /\ Done(k) /\ calls[k].skip
        /\ \E ps \in PassesOf(k) :
              \E h \in InBandHoles(ps.coords) :
                  /\ getHoleCacheKey(h) \in DOMAIN holeCache
                  /\ holeCache[getHoleCacheKey(h)]
                  /\ h \notin Range(ps.rings)

(* C3: in strict mode every size-eligible hole is decided by exactly one   *)
(* answer, from the cache or from its own Oracle call: hasStreets = false  *)
(* means the hole is absent from the output, true means it is present.     *)
C3_DecidedByAnswer ==
    \A k \in Inv :
        ~calls[k].skip =>
            \A ps \in PassesOf(k) :
                \A h \in InBandHoles(ps.coords) :
                    /\ Cardinality({m \in 1..Len(ps.all) : ps.all[m].hole = h}) = 1
                    /\ \A m \in 1..Len(ps.all) :
                          ps.all[m].hole = h =>
                             /\ (h \in Range(HolesOf(ps.rings))) <=> ps.all[m].hasStreets
                             /\ IF ps.all[m].cached
                                THEN \A j \in CallPositions(k) : calls[k].log[j].a # h
                                ELSE \E j \in RetPositions(k) :
                                        /\ calls[k].log[j].a = h
                                        /\ calls[k].log[j].b = B2N(ps.all[m].hasStreets)

\* one strict pass kept a hole and dropped another, one on a cached answer
\* and one on a fresh answer
C3_Witness ==
    \E k \in Inv :
        /\ Done(k) /\ ~calls[k].skip
        /\ \E ps \in PassesOf(k) :
              \E m, n \in 1..Len(ps.all) :
                  /\ ps.all[m].cached /\ ~ps.all[n].cached
                  /\ ps.all[m].hasStreets # ps.all[n].hasStreets
                  /\ \E x \in {m, n} : ps.all[x].hole \in Range(ps.rings)
                  /\ \E x \in {m, n} : ps.all[x].hole \notin Range(ps.rings)

(* C4: over any sequence of fillBlocks invocations of one process, holes   *)
(* with the same key in one pass and overlapping invocations included, the *)
(* Oracle is called at most once per spatial key.                          *)
C4_OncePerKey == \A key \in QueriedKeys : KeyCalls(key) <= 1

(* C5: a strict invocation on a polygon with one eligible hole has run to  *)
(* completion and a second strict invocation on a hole with the same key   *)
(* starts afterwards: the second issues no Oracle call and decides with    *)
(* the answer the first stored; the two issue one Oracle call in total.    *)
OneEligibleHole(k) ==
    /\ calls[k].geom.type = "Polygon"
    /\ Cardinality(InBandHoles(calls[k].geom.coordinates)) = 1

TheHole(k) == CHOOSE h \in InBandHoles(calls[k].geom.coordinates) : TRUE

\* invocation a misses the cache, and no invocation other than a and b ever
\* queries the key
FirstOnKey(a, b) ==
    /\ KeyCallsOf(a, getHoleCacheKey(TheHole(a))) = 1
    /\ \A c \in Inv \ {a, b} : KeyCallsOf(c, getHoleCacheKey(TheHole(a))) = 0

Sequential(a, b) ==
    /\ a # b
    /\ Done(a) /\ Done(b) /\ a \in calls[b].seen
    /\ ~calls[a].skip /\ ~calls[b].skip
    /\ OneEligibleHole(a) /\ OneEligibleHole(b)
    /\ getHoleCacheKey(TheHole(a)) = getHoleCacheKey(TheHole(b))
    /\ FirstOnKey(a, b)

C5_SecondFromCache ==
    \A a, b \in Inv :
        Sequential(a, b) =>
            /\ NumCalls(b) = 0
            /\ NumCalls(a) + NumCalls(b) = 1
            /\ \A pb \in PassesOf(b) : \A pa \in PassesOf(a) :
                  /\ \A m \in 1..Len(pb.all) : pb.all[m].cached
                  /\ AnswersFor(pb, TheHole(b)) = AnswersFor(pa, TheHole(a))

\* both invocations have completed, the second after the first, with the
\* answer hasStreets = true
C5_Witness ==
    \E a, b \in Inv :
        /\ Sequential(a, b)
        /\ \E pb \in PassesOf(b) : AnswersFor(pb, TheHole(b)) = {TRUE}

(* C6: within one fillBlocks invocation the number of Oracle calls in      *)
(* flight at the same time never exceeds the batch width, 3.               *)
C6_InFlightAtMostThree == \A k \in Inv : InFlight(k) <= 3

\* three calls are in flight while further candidates wait for their group
C6_Witness ==
    \E k \in Inv :
        /\ InFlight(k) = 3
        /\ Len(calls[k].uncachedData) > 3

(* C7: the cache-miss candidates of a pass are partitioned in order into   *)
(* groups of at most 3; the calls of one group are issued together, and no *)
(* call of group N+1 is issued until every call of group N has completed.  *)
CompleteBetween(k, j1, j2) ==
    \E m \in (j1 + 1)..(j2 - 1) : calls[k].log[m].t = "Complete"

\* two calls of the same pass and the same group
SameGroup(k, j1, j2) ==
    /\ calls[k].log[j1].b = calls[k].log[j2].b
    /\ calls[k].log[j1].c < calls[k].log[j2].c
    /\ ~CompleteBetween(k, j1, j2)

\* the calls issued so far by the pass that is awaiting a batch
CurrentPassCalls(k) ==
    {j \in CallPositions(k) :
        \A m \in j..Len(calls[k].log) : calls[k].log[m].t # "Complete"}

C7_GroupsInSequence ==
    \A k \in Inv :
        /\ \A j \in CallPositions(k) :
              calls[k].log[j].b = ((calls[k].log[j].c - 1) \div 3) + 1
        /\ \A j1, j2 \in CallPositions(k) :
              j1 < j2 =>
                 IF SameGroup(k, j1, j2)
                 THEN \A m \in j1..j2 : calls[k].log[m].t = "call"
                 ELSE \E m \in (j1 + 1)..(j2 - 1) :
                         /\ calls[k].log[m].t = "ret"
                         /\ calls[k].log[m].a = calls[k].log[j1].a
        /\ calls[k].pc = "batching" =>
              /\ \A j \in CurrentPassCalls(k) :
                    /\ calls[k].log[j].c \in 1..Len(calls[k].uncachedData)
                    /\ calls[k].uncachedData[calls[k].log[j].c].hole = calls[k].log[j].a
              /\ {calls[k].log[j].c : j \in CurrentPassCalls(k)}
                    = 1..Cardinality(CurrentPassCalls(k))
              /\ \/ Cardinality(CurrentPassCalls(k)) = Len(calls[k].uncachedData)
                 \/ /\ Cardinality(CurrentPassCalls(k)) < Len(calls[k].uncachedData)
                    /\ Cardinality(CurrentPassCalls(k)) % 3 = 0

\* the second group of a pass is in flight, after a first group of three
C7_Witness ==
    \E k \in Inv :
        /\ calls[k].pc = "batching"
        /\ Cardinality(CurrentPassCalls(k)) > 3
        /\ Cardinality({j \in CurrentPassCalls(k) : calls[k].log[j].b = 1}) = 3
        /\ InFlight(k) > 0

(* C8: a failed Oracle call (network error, non-JSON body, throw) does not *)
(* reject fillBlocks: the candidate is resolved as hasStreets = false, its *)
(* hole is filled, the rest of its group and the later groups still run,   *)
(* and the invocation reaches its terminal status.                         *)
FailedHoles(k) == {calls[k].log[j].a : j \in {m \in RetPositions(k) : calls[k].log[m].c = 1}}

C8_FailureFillsAndGoesOn ==
    \A k \in Inv :
        /\ calls[k].pc # "rejected"
        /\ \A j \in RetPositions(k) : calls[k].log[j].c = 1 => calls[k].log[j].b = 0
        /\ calls[k].pc = "batching" => InFlight(k) > 0
        /\ \A ps \in PassesOf(k) :
              \A h \in FailedHoles(k) \cap Range(HolesOf(ps.coords)) :
                  /\ h \notin Range(ps.rings)
                  /\ AnswersFor(ps, h) = {FALSE}
        /\ Done(k) /\ FailedHoles(k) # {} =>
              /\ InFlight(k) = 0
              /\ \A j \in RetPositions(k) :
                    calls[k].log[j].c = 1 =>
                       \E m \in (j + 1)..Len(calls[k].log) : calls[k].log[m].t = "Complete"
              /\ \A ps \in PassesOf(k) :
                    \A h \in InBandHoles(ps.coords) : AnswersFor(ps, h) # {}

\* an invocation has completed although a call of its first group failed,
\* after running a second group
C8_Witness ==
    \E k \in Inv :
        /\ Done(k)
        /\ \E j \in RetPositions(k), m \in CallPositions(k) :
              /\ calls[k].log[j].c = 1
              /\ j < m
              /\ calls[k].log[m].b = 2
              /\ \E n \in CallPositions(k) :
                    /\ calls[k].log[n].a = calls[k].log[j].a
                    /\ calls[k].log[n].b = 1

(* C9: the output of fillBlocks differs from the input only by removal of  *)
(* interior rings: ring 0 of each polygon is the input's ring 0, every     *)
(* output hole is an input hole of the same polygon, no ring is added or   *)
(* altered.                                                                *)
\* s is t with some elements left out, and t has no element twice
IsSubSeq(s, t) ==
    /\ \A m, n \in 1..Len(t) : t[m] = t[n] => m = n
    /\ s = SelectSeq(t, LAMBDA x : x \in Range(s))

RingsOnlyRemoved(inRings, outRings) ==
    IF Len(inRings) = 0 THEN outRings = inRings
    ELSE /\ Len(outRings) >= 1
         /\ outRings[1] = inRings[1]
         /\ Range(Tail(outRings)) \subseteq Range(Tail(inRings))
         /\ Len(outRings) = Cardinality(Range(outRings))

C9_OnlyHolesRemoved ==
    \A k \in Inv :
        Done(k) =>
            /\ calls[k].result.type = calls[k].geom.type
            /\ calls[k].geom.type = "Polygon" =>
                  RingsOnlyRemoved(calls[k].geom.coordinates, calls[k].result.coordinates)
            /\ calls[k].geom.type = "MultiPolygon" =>
                  /\ Len(calls[k].result.coordinates) = Len(calls[k].geom.coordinates)
                  /\ \A q \in 1..Len(calls[k].geom.coordinates) :
                        RingsOnlyRemoved(calls[k].geom.coordinates[q],
                                         calls[k].result.coordinates[q])
            /\ calls[k].geom.type \notin {"Polygon", "MultiPolygon"} =>
                  calls[k].result = calls[k].geom

\* a strict invocation has returned a polygon from which a hole was removed
\* and in which a queried hole was kept
C9_Witness ==
    \E k \in Inv :
        /\ Done(k) /\ ~calls[k].skip /\ NumCalls(k) > 0
        /\ calls[k].geom.type = "Polygon"
        /\ Len(calls[k].result.coordinates) < Len(calls[k].geom.coordinates)
        /\ \E j \in CallPositions(k) : calls[k].log[j].a \in Range(calls[k].result.coordinates)

(* C10: the ring list a strict pass returns is the outer ring, then the    *)
(* size-ineligible holes in their original relative order, then the        *)
(* size-eligible holes that were kept; this is not the original ring order.*)
KeptSet(ps) == {h \in InBandHoles(ps.coords) : TRUE \in AnswersFor(ps, h)}

C10_RetainedThenKept ==
    \A k \in Inv :
        ~calls[k].skip =>
            \A ps \in PassesOf(k) :
                Len(ps.coords) >= 1 =>
                    LET retained == SelectSeq(HolesOf(ps.coords), LAMBDA h : ~InBand(h))
                        rest == SubSeq(ps.rings, 2 + Len(retained), Len(ps.rings))
                    IN /\ Len(ps.rings) = 1 + Len(retained) + Cardinality(KeptSet(ps))
                       /\ ps.rings[1] = ps.coords[1]
                       /\ SubSeq(ps.rings, 2, 1 + Len(retained)) = retained
                       /\ Range(rest) = KeptSet(ps)

\* a strict pass has returned its holes in another order than it received them
C10_Witness ==
    \E k \in Inv :
        /\ Done(k) /\ ~calls[k].skip
        /\ \E ps \in PassesOf(k) :
              /\ KeptSet(ps) # {}
              /\ Range(ps.rings) \subseteq Range(ps.coords)
              /\ ps.rings # SelectSeq(ps.coords, LAMBDA x : x \in Range(ps.rings))

(* C11: for a MultiPolygon, fillBlocks returns a MultiPolygon with the     *)
(* same number of polygons, the i-th being the result of the pass on the   *)
(* i-th input polygon, and the pass on polygon i+1 does not start before   *)
(* the pass on polygon i has finished.                                     *)
\* the positions of the Oracle events of invocation k about hole h
HolePositions(k, h) ==
    {j \in CallPositions(k) \cup RetPositions(k) : calls[k].log[j].a = h}

C11_PolygonsInOrder ==
    \A k \in Inv :
        calls[k].geom.type = "MultiPolygon" =>
            LET polys == calls[k].geom.coordinates
                ps == calls[k].passes
            IN /\ Len(ps) <= Len(polys)
               /\ \A q \in 1..Len(ps) : ps[q].coords = polys[q]
               \* Oracle events belong to the finished passes or to the next one
               /\ \A j \in CallPositions(k) :
                     \E q \in 1..Min(Len(ps) + 1, Len(polys)) :
                         calls[k].log[j].a \in Range(HolesOf(polys[q]))
               \* every event of an earlier polygon precedes those of a later one
               /\ \A q1, q2 \in 1..Len(polys) :
                     q1 < q2 =>
                        \A h1 \in Range(HolesOf(polys[q1])), h2 \in Range(HolesOf(polys[q2])) :
                            \A j1 \in HolePositions(k, h1), j2 \in HolePositions(k, h2) : j1 < j2
               /\ \A q \in 1..Len(ps) :
                     \A j \in {m \in CallPositions(k) :
                                  calls[k].log[m].a \in Range(HolesOf(polys[q]))} :
                         \E m \in RetPositions(k) : calls[k].log[m].a = calls[k].log[j].a
               /\ Done(k) =>
                     /\ calls[k].result.type = "MultiPolygon"
                     /\ Len(calls[k].result.coordinates) = Len(polys)
                     /\ Len(ps) = Len(polys)
                     /\ \A q \in 1..Len(polys) : calls[k].result.coordinates[q] = ps[q].rings

\* a MultiPolygon has been returned whose two polygons each had a hole
\* queried, the first kept and the second dropped
C11_Witness ==
    \E k \in Inv :
        /\ Done(k) /\ calls[k].geom.type = "MultiPolygon"
        /\ Len(calls[k].geom.coordinates) >= 2
        /\ \A q \in 1..2 :
              \E j \in CallPositions(k) :
                  calls[k].log[j].a \in Range(HolesOf(calls[k].geom.coordinates[q]))
        /\ Len(calls[k].result.coordinates[1]) > Len(calls[k].result.coordinates[2])
        /\ calls[k].result.coordinates[1] # calls[k].result.coordinates[2]

----------------------------------------------------------------------------
(* Vocabulary of the mergeAreas properties *)

IsWrapped(x) == x.type = "Feature"
GeometryOf(x) == IF IsWrapped(x) THEN x.geometry ELSE x
Absent(x) == x.type = "null"

(* C12: mergeAreas with an absent first argument returns the geometry of   *)
(* the second argument unchanged, without calling the union operator.      *)
C12_FirstImport ==
    (merged.called /\ Absent(merged.existingArea)) =>
        /\ merged.out.value = GeometryOf(merged.newPolygon)
        /\ ~merged.out.unionCalled
        /\ ~merged.out.raised

\* a first import of a Feature-wrapped area of two separate parts
C12_Witness ==
    /\ merged.called /\ Absent(merged.existingArea)
    /\ IsWrapped(merged.newPolygon)
    /\ merged.out.value.type = "MultiPolygon"

(* C13: when the union operator throws, mergeAreas does not raise and      *)
(* returns the existing geometry unchanged: the area of the caller is not  *)
(* reduced by a failed merge.                                              *)
C13_UnionThrowKeepsExisting ==
    (merged.called /\ ~Absent(merged.existingArea) /\ merged.outcome = "throw") =>
        /\ ~merged.out.raised
        /\ merged.out.value = GeometryOf(merged.existingArea)
        /\ GeometryOf(merged.existingArea).coordinates \subseteq merged.out.value.coordinates

\* the union threw on a new polygon that covers a cell the existing area
\* does not
C13_Witness ==
    /\ merged.called /\ ~Absent(merged.existingArea) /\ merged.outcome = "throw"
    /\ ~(GeometryOf(merged.newPolygon).coordinates
            \subseteq GeometryOf(merged.existingArea).coordinates)
    /\ merged.out.value = GeometryOf(merged.existingArea)

(* C14: whatever the wrapping of the two arguments and on every return     *)
(* path (first import, union success, union failure), mergeAreas returns a *)
(* bare geometry, never a Feature.                                         *)
C14_ReturnsBareGeometry ==
    merged.called =>
        /\ merged.out.value.type \in {"Polygon", "MultiPolygon"}
        /\ ~IsWrapped(merged.out.value)

\* both arguments wrapped, the union failed
C14_Witness ==
    /\ merged.called
    /\ IsWrapped(merged.existingArea) /\ IsWrapped(merged.newPolygon)
    /\ merged.outcome = "throw"
    /\ merged.out.value.type = "Polygon"

----------------------------------------------------------------------------
(* C15, as claimed: for a polygon with no interior holes, fillBlocks       *)
(* returns a ring set equal to the input, issues 0 Oracle calls and emits  *)
(* a status reporting "Filled: 0, Kept: 0".                                *)
NoHolesPolygon(k) ==
    /\ Done(k)
    /\ calls[k].geom.type = "Polygon"
    /\ Len(calls[k].geom.coordinates) = 1

C15_NoHolesStatus ==
    \A k \in Inv :
        NoHolesPolygon(k) =>
            /\ calls[k].result = calls[k].geom
            /\ NumCalls(k) = 0
            /\ StComplete(0, 0) \in Range(calls[k].log)

(* C15, amended: for a polygon with no interior holes, fillBlocks returns  *)
(* a ring set equal to the input and issues 0 Oracle calls; it emits no    *)
(* block status at all, only "Analyzing cleared area geometry..." in       *)
(* strict mode.                                                            *)
C15_NoHolesNoStatus ==
    \A k \in Inv :
        NoHolesPolygon(k) =>
            /\ calls[k].result = calls[k].geom
            /\ NumCalls(k) = 0
            /\ calls[k].log = IF calls[k].skip THEN <<>>
                              ELSE << [t |-> "Analyzing", a |-> 0, b |-> 0, c |-> 0] >>

\* a strict invocation on a polygon that has only its outer ring is done
C15_Witness == \E k \in Inv : NoHolesPolygon(k) /\ ~calls[k].skip

----------------------------------------------------------------------------
(* C16, as claimed: the progress message of a batch group (batch index,    *)
(* number of batches, group size) is emitted after all Oracle calls of     *)
(* that group have completed, and before the next group starts.            *)
BatchPositions(k) == {j \in 1..Len(calls[k].log) : calls[k].log[j].t = "Batch"}

\* call m belongs to the group the message at j announces
CallOfGroup(k, j, m) ==
    /\ calls[k].log[m].b = calls[k].log[j].a
    /\ ~\E x \in (Min(j, m) + 1)..(IF j < m THEN m - 1 ELSE j - 1) :
           calls[k].log[x].t = "Complete"

C16_MessageAfterGroup ==
    \A k \in Inv :
        \A j \in BatchPositions(k) :
            \A m \in CallPositions(k) :
                CallOfGroup(k, j, m) =>
                    /\ m < j
                    /\ \E x \in RetPositions(k) :
                          x < j /\ calls[k].log[x].a = calls[k].log[m].a

(* C16, amended: the progress message of a batch group is emitted when the *)
(* group starts: after all Oracle calls of the earlier groups have         *)
(* completed and immediately before the calls of its own group are issued. *)
\* the number of cache misses the pass announced before position j
CheckingBefore(k, j) ==
    LET cs == {x \in 1..(j - 1) : calls[k].log[x].t = "Checking"}
    IN  IF cs = {} THEN 0
        ELSE calls[k].log[CHOOSE x \in cs : \A y \in cs : y <= x].a

C16_MessageBeforeGroup ==
    \A k \in Inv :
        \A j \in BatchPositions(k) :
            LET num == calls[k].log[j].a
                total == calls[k].log[j].b
                len == calls[k].log[j].c
                n == CheckingBefore(k, j)
            IN /\ total = (n + 2) \div 3
               /\ num \in 1..total
               /\ len = Min(3, n - 3 * (num - 1))
               /\ j + len <= Len(calls[k].log)
               /\ \A x \in 1..len :
                     /\ calls[k].log[j + x].t = "call"
                     /\ calls[k].log[j + x].b = num
                     /\ calls[k].log[j + x].c = 3 * (num - 1) + x
               /\ \A m \in CallPositions(k) :
                     m < j => \E x \in RetPositions(k) :
                                 x < j /\ calls[k].log[x].a = calls[k].log[m].a

\* the message of the second of two groups is out and its calls are in flight
C16_Witness ==
    \E k \in Inv :
        \E j \in BatchPositions(k) :
            /\ calls[k].log[j].a = 2
            /\ InFlight(k) = calls[k].log[j].c
            /\ InFlight(k) > 0

----------------------------------------------------------------------------
(* C17: in a strict polygon pass, every candidate whose key is in the      *)
(* cache when the pass looks it up is resolved from the cache before the   *)
(* first Oracle call of the pass and no Oracle call is issued for it; the  *)
(* number N of these candidates is reported once per pass, right after the *)
(* pass found its holes, when N > 0, and not at all when N = 0.            *)
Awaiting(r) == r.pc \in {"batching", "rejected"}

Rank(S, x) == Cardinality({y \in S : y <= x})

FoundPositions(log) == {j \in 1..Len(log) : log[j].t = "Found"}

\* the events of the pass that starts at position f of the log
Segment(log, f) ==
    LET later == {j \in FoundPositions(log) : j > f}
    IN  (f + 1)..(IF later = {} THEN Len(log)
                  ELSE (CHOOSE j \in later : \A y \in later : j <= y) - 1)

\* the in-band holes of a ring list whose key the cache holds
CacheHits(coords, cache) ==
    {h \in InBandHoles(coords) : getHoleCacheKey(h) \in DOMAIN cache}

\* the passes an invocation starts in a step see the cache the step leaves
C17_Step(k) ==
    LET old == calls[k]
        new == calls'[k]
        polys == PolyList(new.geom)
        lo == Len(old.passes) + (IF Awaiting(old) THEN 1 ELSE 0) + 1
        hi == Len(new.passes) + (IF Awaiting(new) THEN 1 ELSE 0)
        started == {q \in lo..hi : Len(polys[q]) > 1}
        found == {j \in FoundPositions(new.log) : j > Len(old.log)}
    IN  (new # old /\ ~new.skip) =>
        /\ Cardinality(found) = Cardinality(started)
        /\ \A q \in started, f \in found :
              Rank(started, q) = Rank(found, f) =>
                 LET hits == CacheHits(polys[q], holeCache')
                     seg == Segment(new.log, f)
                     cachedEv == {j \in seg : new.log[j].t = "Cached"}
                 IN /\ hits # {} => /\ cachedEv = {f + 1}
                                    /\ new.log[f + 1].a = Cardinality(hits)
                    /\ hits = {} => cachedEv = {}
                    /\ \A j \in seg : new.log[j].t = "call" => new.log[j].a \notin hits
                    /\ (q = hi /\ Awaiting(new)) =>
                          {new.cachedResults[x].hole : x \in 1..Len(new.cachedResults)} = hits
        /\ Awaiting(new) =>
              \A f \in FoundPositions(new.log) :
                 \A j \in Segment(new.log, f) :
                    (new.log[j].t = "call" /\ Segment(new.log, f) \cap FoundPositions(new.log) = {}
                       /\ \A g \in FoundPositions(new.log) : g <= f) =>
                        \A x \in 1..Len(new.cachedResults) :
                            new.cachedResults[x].hole # new.log[j].a
        /\ \A f \in FoundPositions(new.log) :
              Cardinality({j \in Segment(new.log, f) : new.log[j].t = "Cached"}) <= 1

C17_CacheHitsBypass == [][\A k \in Inv : C17_Step(k)]_vars

\* a pass with a cache hit and a cache miss: the hit is reported, the miss
\* is being queried
C17_Witness ==
    \E k \in Inv :
        /\ calls[k].pc = "batching"
        /\ Len(calls[k].cachedResults) > 0
        /\ \E j \in 1..Len(calls[k].log) :
              /\ calls[k].log[j].t = "Cached"
              /\ \E m \in CallPositions(k) : m > j

----------------------------------------------------------------------------
(* C18: in a strict polygon pass, the answer of every Oracle call is in    *)
(* the cache under the key of its hole as soon as the call has returned,   *)
(* before any hole of the pass is decided; when a pass decides, the cache  *)
(* holds an entry for every size-eligible hole of the pass.                *)
C18_Step(k) ==
    LET old == calls[k]
        new == calls'[k]
        fresh == (Len(old.log) + 1)..Len(new.log)
    IN  /\ \A j \in fresh :
              new.log[j].t = "ret" =>
                 /\ getHoleCacheKey(new.log[j].a) \in DOMAIN holeCache'
                 /\ B2N(holeCache'[getHoleCacheKey(new.log[j].a)]) = new.log[j].b
                 /\ \A c \in fresh : new.log[c].t = "Complete" => j < c
        /\ \A q \in (Len(old.passes) + 1)..Len(new.passes) :
              new.passes[q].decided =>
                 \A h \in InBandHoles(new.passes[q].coords) :
                    getHoleCacheKey(h) \in DOMAIN holeCache'

C18_WrittenBeforeDeciding == [][\A k \in Inv : C18_Step(k)]_vars

\* a pass decided a hole with a fresh answer, which the cache holds
C18_Witness ==
    \E k \in Inv :
        \E ps \in PassesOf(k) :
            /\ ps.decided
            /\ \E m \in 1..Len(ps.all) :
                  /\ ~ps.all[m].cached
                  /\ getHoleCacheKey(ps.all[m].hole) \in DOMAIN holeCache

----------------------------------------------------------------------------
(* C19: the cache is write-once per key with no eviction: once a key has   *)
(* an entry, no step removes the key or changes its boolean value, over    *)
(* any sequence and interleaving of fillBlocks invocations.                *)
C19_WriteOnce ==
    [][\A key \in DOMAIN holeCache :
          /\ key \in DOMAIN holeCache'
          /\ holeCache'[key] = holeCache[key]]_vars

----------------------------------------------------------------------------
(* C20, as claimed: the number of Oracle requests in flight in the whole   *)
(* process never exceeds the batch width 3, also when several fillBlocks   *)
(* invocations are active at once.                                         *)
RECURSIVE InFlightUpTo(_)
InFlightUpTo(n) == IF n = 0 THEN 0 ELSE InFlight(n) + InFlightUpTo(n - 1)

TotalInFlight == InFlightUpTo(Cardinality(Inv))

AwaitingBatch == {k \in Inv : calls[k].pc = "batching"}

----------------------------------------------------------------------------
(* C21: while one Oracle call of a group has not completed, every other    *)
(* unanswered call of the group is pending on its own (its answer is       *)
(* accepted whatever the state of its siblings), the answers of the        *)
(* completed ones are in the cache, and the group is not complete: no call *)
(* of the next group is issued and no terminal status is emitted.          *)
Outstanding(k, m) ==
    ~\E x \in RetPositions(k) : x > m /\ calls[k].log[x].a = calls[k].log[m].a

C21_StalledCallBlocksOnlyItsGroup ==
    \A k \in Inv :
        LET r == calls[k]
        IN /\ \A m \in CallPositions(k) :
                 Outstanding(k, m) =>
                    \A j \in (m + 1)..Len(r.log) :
                       /\ r.log[j].t \in {"call", "ret"}
                       /\ r.log[j].t = "call" => r.log[j].b = r.log[m].b
           /\ \A x \in RetPositions(k) :
                 getHoleCacheKey(r.log[x].a) \in DOMAIN holeCache
           /\ r.pc = "batching" =>
                 \A idx \in 1..Len(r.slots) :
                    ~r.slots[idx].done => Pending(r.slots, idx)

\* the first call of a group of three is outstanding, the other two have
\* returned
C21_Witness ==
    \E k \in Inv :
        /\ calls[k].pc = "batching"
        /\ Len(calls[k].slots) = 3
        /\ ~calls[k].slots[1].done
        /\ calls[k].slots[2].done
        /\ calls[k].slots[3].done
        /\ Len(calls[k].uncachedData) > calls[k].i + 3

----------------------------------------------------------------------------
(* C22: when an Oracle request fails (network or parse failure), the       *)
(* answer is the fail-safe default the caller configured, be it false      *)
(* (fill) or true (keep the hole).                                         *)
C22_FailSafeConfigurable ==
    \A k \in Inv :
        \A x \in RetPositions(k) :
            calls[k].log[x].c = 1 => calls[k].log[x].b = B2N(calls[k].failSafe)

----------------------------------------------------------------------------
(* C26: a strict polygon pass with at least one size-eligible hole ends    *)
(* with exactly one terminal status "Filled: F, Kept: K", emitted after    *)
(* all its batches; F is the number of holes dropped, K the number of      *)
(* eligible holes kept, F + K the number of size-eligible holes, and the   *)
(* output has (input hole count - F) holes.  Other passes emit none.       *)
CompletePositions(k) == {j \in 1..Len(calls[k].log) : calls[k].log[j].t = "Complete"}

DecidedPasses(k) == {q \in 1..Len(calls[k].passes) : calls[k].passes[q].decided}

EligibleCount(coords) == Len(SelectSeq(HolesOf(coords), InBand))

C26_TerminalStatus ==
    \A k \in Inv :
        LET r == calls[k]
        IN /\ Cardinality(CompletePositions(k)) = Cardinality(DecidedPasses(k))
           /\ \A q \in 1..Len(r.passes) :
                 r.passes[q].decided <=> (~r.skip /\ EligibleCount(r.passes[q].coords) > 0)
           /\ \A q \in DecidedPasses(k), c \in CompletePositions(k) :
                 Rank(DecidedPasses(k), q) = Rank(CompletePositions(k), c) =>
                    LET ps == r.passes[q]
                        F == r.log[c].a
                        K == r.log[c].b
                        later == {j \in FoundPositions(r.log) : j > c}
                        next == IF later = {} THEN Len(r.log) + 1
                                ELSE CHOOSE j \in later : \A y \in later : j <= y
                    IN /\ F + K = EligibleCount(ps.coords)
                       /\ F = Cardinality(Range(HolesOf(ps.coords)) \ Range(HolesOf(ps.rings)))
                       /\ K = Cardinality(InBandHoles(ps.coords) \cap Range(HolesOf(ps.rings)))
                       /\ Len(HolesOf(ps.rings)) = Len(HolesOf(ps.coords)) - F
                       /\ \A j \in (c + 1)..(next - 1) : r.log[j].t = "Part"

\* a pass of two batches has ended with holes filled and holes kept
C26_Witness ==
    \E k \in Inv :
        \E c \in CompletePositions(k) :
            /\ calls[k].log[c].a > 0
            /\ calls[k].log[c].b > 0
            /\ \E j \in BatchPositions(k) : j < c /\ calls[k].log[j].a = 2

----------------------------------------------------------------------------
(* C23: a completed fill result is applied to the explored area only if it *)
(* is still relevant: when the explored area was changed after the pass    *)
(* took its input, or the component that started the pass was torn down,   *)
(* the result is discarded and the explored area stays as it is.           *)
FillKinds == {"upload", "reload", "rescan", "draw", "gps"}

C23_StaleResultDiscarded ==
    (app.last.kind \in FillKinds /\ (app.last.stale \/ ~app.last.live)) =>
        SameGeometry(app.clearedArea, app.last.prev)

----------------------------------------------------------------------------
(* C24: while the user drags a stroke, the updates delivered to            *)
(* onDrawUpdate have the enclosed blocks filled (fast-path fill); the      *)
(* strict pass runs once the stroke ends.                                  *)
C24_DragUpdatesFilled ==
    /\ app.last.kind = "drawUpdate" => HolesOfArea(app.last.arg) = {}
    /\ app.last.kind = "draw" => ~app.last.skip

----------------------------------------------------------------------------
(* C28: between two resets the explored area only grows: no step other    *)
(* than a reset leaves a cell that was explored out of the explored area.  *)
CellsOf(g) == IF g.type = "null" THEN {} ELSE g.coordinates

C28_AreaOnlyGrows ==
    app.last.kind \notin {"none", "clear"} =>
        CellsOf(app.last.prev) \subseteq CellsOf(app.clearedArea)

----------------------------------------------------------------------------
(* C29: at every mousedown the base area of the stroke is the explored     *)
(* area of the host at that time, and the geometry delivered for a stroke  *)
(* contains the strokes delivered before in the same draw session.         *)
C29_BaseIsCurrentArea ==
    /\ app.last.kind = "mousedown" => SameGeometry(app.dBase, app.clearedArea)
    /\ app.last.kind \in {"drawUpdate", "draw"} =>
          app.session \subseteq CellsOf(app.last.arg)

----------------------------------------------------------------------------
(* C30: a stroke keeps the base area and the points it recorded, also when *)
(* it begins while the mouseup handler of the stroke before awaits its     *)
(* fill pass.                                                              *)
C30_StrokeKeepsItsData ==
    /\ (app.dOn \/ app.dTimer = "pending") => SameGeometry(app.dBase, app.sBase)
    /\ app.dOn => app.dPts = app.sPts

----------------------------------------------------------------------------
(* C25: when GPSControl unmounts with at least 2 recorded points, exactly  *)
(* one strict pass starts on the union of the base area taken at GPS start *)
(* and the buffered path, with the points and base of that moment, and its *)
(* result is handed to onGPSUpdate, which puts it in place; with fewer     *)
(* than 2 points no pass starts and nothing is delivered.                  *)
GPSStopInput == Merge(app.gBase, bufferPath(app.gPts))

GPSStopStep ==
    (GPSMounted /\ ~GPSMounted') =>
        IF Len(app.gPts) >= MIN_POINTS
        THEN \/ /\ app'.fills = Append(app.fills,
                        [FillPass("gps", GPSStopInput, FALSE, app.gPts)
                            EXCEPT !.live = FALSE])
                /\ SameGeometry(app'.clearedArea, app.clearedArea)
             \/ /\ Len(app'.fills) = Len(app.fills)
                /\ HolesOfArea(GPSStopInput) = {}
                /\ app'.last.kind = "gps"
                /\ ~app'.last.skip
                /\ app'.last.pts = Range(app.gPts)
                /\ SameGeometry(app'.last.arg, GPSStopInput)
        ELSE /\ app'.fills = app.fills
             /\ app'.last.kind = "mode"
             /\ SameGeometry(app'.clearedArea, app.clearedArea)

GPSDeliveryStep ==
    app'.last.kind = "gps" =>
        /\ SameGeometry(app'.clearedArea, app'.last.arg)
        /\ ~app'.last.skip
        /\ app'.last.pts # {}
        /\ app'.last.pts \subseteq CellsOf(app'.clearedArea)

C25_GPSStopStrictPass == [][GPSStopStep /\ GPSDeliveryStep]_vars

C25_Witness ==
    /\ app.last.kind = "gps"
    /\ app.last.pts = {1, 3}
    /\ ~app.last.live
    /\ 2 \in CellsOf(app.clearedArea)

----------------------------------------------------------------------------
(* C27: the export of a non-empty explored area is one Feature whose       *)
(* geometry is the explored area, and the import of that file in a session *)
(* that has no explored area while the file is chosen and read makes the   *)
(* explored area exactly that geometry (the re-scan timer is only set).    *)
ExportStep ==
    app'.last.kind = "export" =>
        LET v == JSONParse(app'.file)
        IN  /\ app.clearedArea.type # "null"
            /\ v.type = "Feature"
            /\ SameGeometry(v.geometry, app.clearedArea)

ImportStep ==
    (/\ app.reading # <<>>
     /\ app'.reading = <<>>
     /\ app.reading[1].file.kind = "geojson"
     /\ app.reading[1].closure.type = "null"
     /\ app.clearedArea.type = "null") =>
        \A g \in Areas :
            app.reading[1].file.text = ExportText(g) =>
                /\ SameGeometry(app'.clearedArea, g)
                /\ app'.last.kind = "import"
                /\ Len(app'.timers) = Len(app.timers) + 1

C27_ExportImportRoundTrip == [][ExportStep /\ ImportStep]_vars

C27_Witness ==
    /\ app.last.kind = "import"
    /\ app.last.prev.type = "null"
    /\ app.clearedArea.type = "MultiPolygon"
    /\ app.file = ExportText(app.clearedArea)

----------------------------------------------------------------------------
(* C31: after a reset the explored area stays absent until the next user   *)
(* input: a fill pass that was scheduled or in flight before the reset     *)
(* (its input was taken before the area changed, and the area is absent    *)
(* when it ends) does not put an area in place.                            *)
C31_ResetStaysEmpty ==
    (/\ app.last.kind \in FillKinds
     /\ app.last.stale
     /\ app.last.prev.type = "null") =>
        app.clearedArea.type = "null"

----------------------------------------------------------------------------
(* C32: a track upload puts the merged, unfilled area in place first and   *)
(* only schedules the fill pass, which then runs on that merged area; when *)
(* the pass rejects, the explored area is left as it is, which is the      *)
(* merged area if nothing changed it meanwhile, and the error status of    *)
(* the upload is shown.                                                    *)
C32_UploadPublishesThenFills ==
    /\ app.last.kind = "track" =>
          /\ SameGeometry(app.clearedArea, app.last.arg)
          /\ app.timers # <<>>
          /\ app.timers[Len(app.timers)].src = "upload"
          /\ SameGeometry(app.timers[Len(app.timers)].input, app.last.arg)
    /\ (app.last.kind = "upload" /\ ~app.last.stale) =>
          /\ CellsOf(app.last.prev) \subseteq CellsOf(app.last.arg)
          /\ CellsOf(app.last.arg) \ CellsOf(app.last.prev)
                \subseteq EnclosedCells(CellsOf(app.last.prev))
    /\ app.last.kind = "uploadError" =>
          /\ SameGeometry(app.clearedArea, app.last.prev)
          /\ ~app.last.stale => SameGeometry(app.clearedArea, app.last.arg)
          /\ app.status = "Track uploaded. Error checking blocks (network issue?)."

C32_Witness ==
    /\ app.last.kind = "uploadError"
    /\ ~app.last.stale
    /\ app.clearedArea.type = "MultiPolygon"

----------------------------------------------------------------------------
(* C33: draw mode and GPS mode are never on together, whatever the         *)
(* sequence of clicks on the Draw Path button and the GPS button.          *)
C33_ModesExclusive == ~(app.isDrawing /\ app.isGPS)

\* the Draw Path button was clicked while GPS tracking was on with a path
\* recorded: GPSControl was unmounted, its last pass delivered, and
\* DrawControl mounted on the area of before the click
C33_Witness ==
    /\ app.isDrawing
    /\ ~app.isGPS
    /\ app.status = "Draw mode ON."
    /\ app.last.kind = "gps" /\ ~app.last.live /\ app.last.pts # {}
    /\ app.fills = <<>>
    /\ app.dProp.type # "null"
    /\ SameGeometry(app.dProp, app.last.prev)

----------------------------------------------------------------------------
(* C34: whenever a fill pass the app started (upload, Re-Scan, mouseup of  *)
(* a stroke, GPS stop) has filled at least one block, the achievement      *)
(* first_fill is unlocked.                                                 *)
C34_FirstFillUnlocked ==
    (app.last.kind \in FillKinds /\ app.last.n > 0) =>
        "first_fill" \in app.achievements

----------------------------------------------------------------------------
(* C35: when every request that was sent is answered or fails in the end,  *)
(* an invocation of fillBlocks completes in the end; when it has, it sent  *)
(* one request for each size-eligible hole that missed the cache when its  *)
(* pass began, each request was answered once, and every strict pass with  *)
(* an eligible hole emitted its final status.                              *)
KeysOfPass(ps) == {getHoleCacheKey(h) : h \in InBandHoles(ps.coords)}

KeysBefore(r, q) == UNION {KeysOfPass(r.passes[p]) : p \in 1..(q - 1)}

MissCount(r, q) ==
    Len(SelectSeq(HolesOf(r.passes[q].coords),
                  LAMBDA h : InBand(h) /\ getHoleCacheKey(h) \notin KeysBefore(r, q)))

RECURSIVE MissesUpTo(_, _)
MissesUpTo(r, q) == IF q = 0 THEN 0 ELSE MissCount(r, q) + MissesUpTo(r, q - 1)

CompletedAsSaid ==
    Done(1) =>
        LET r == calls[1]
        IN  /\ NumCalls(1) = IF r.skip THEN 0 ELSE MissesUpTo(r, Len(r.passes))
            /\ Cardinality(RetPositions(1)) = NumCalls(1)
            /\ Cardinality(CompletePositions(1)) =
                  IF r.skip THEN 0
                  ELSE Cardinality({q \in 1..Len(r.passes) :
                                       EligibleCount(r.passes[q].coords) > 0})

----------------------------------------------------------------------------
(* C36: the answer of a failed request is cached like any other: once a    *)
(* request for a key has failed in an invocation, every strict pass of an  *)
(* invocation that starts after that one is done fills the holes of that   *)
(* key from the cache, without a request for the key.                      *)
FailedKeys(k) ==
    {getHoleCacheKey(calls[k].log[j].a) :
        j \in {x \in RetPositions(k) : calls[k].log[x].c = 1}}

C36_FailedAnswerServedFromCache ==
    \A k \in Inv, n \in Inv :
        (k \in calls[n].seen /\ ~calls[n].skip) =>
            \A key \in FailedKeys(k) :
                /\ KeyCallsOf(n, key) = 0
                /\ \A q \in 1..Len(calls[n].passes) :
                      \A h \in InBandHoles(calls[n].passes[q].coords) :
                         getHoleCacheKey(h) = key =>
                            h \notin Range(HolesOf(calls[n].passes[q].rings))

----------------------------------------------------------------------------
\* fillBlocks is called in fast-path mode as invocation k
FastCallStep(k) ==
    /\ calls[k].pc = "idle"
    /\ calls'[k].pc # "idle"
    /\ calls'[k].skip

(* C37: a fast-path pass (skipStreetCheck = true) leaves the cache         *)
(* unchanged and ignores its contents: the call returns at once, the cache *)
(* after it is the cache before it, and a size-eligible hole whose cached  *)
(* answer is hasStreets = true is absent from the output all the same.     *)
C37_FastPathLeavesCache ==
    [][\A k \in Inv :
          FastCallStep(k) =>
              /\ holeCache' = holeCache
              /\ calls'[k].pc = "done"
              /\ \A q \in 1..Len(calls'[k].passes) :
                    \A h \in InBandHoles(calls'[k].passes[q].coords) :
                        (/\ getHoleCacheKey(h) \in DOMAIN holeCache
                         /\ holeCache[getHoleCacheKey(h)])
                            => h \notin Range(calls'[k].passes[q].rings)]_vars

\* a fast-path call that followed a completed strict invocation, with no
\* request in flight, dropped a hole cached with hasStreets = true and a
\* hole the cache has no answer for
C37_Witness ==
    \E k \in Inv :
        /\ Done(k) /\ calls[k].skip /\ calls[k].seen # {}
        /\ \A j \in Inv : calls[j].pc \in {"idle", "done"}
        /\ \A j \in Inv : j > k => calls[j].pc = "idle"
        /\ \E q \in 1..Len(calls[k].passes) :
              /\ \E h \in InBandHoles(calls[k].passes[q].coords) :
                    /\ getHoleCacheKey(h) \in DOMAIN holeCache
                    /\ holeCache[getHoleCacheKey(h)]
                    /\ h \notin Range(calls[k].passes[q].rings)
              /\ \E h \in InBandHoles(calls[k].passes[q].coords) :
                    /\ getHoleCacheKey(h) \notin DOMAIN holeCache
                    /\ h \notin Range(calls[k].passes[q].rings)

----------------------------------------------------------------------------
\* the place of ring x in a ring list
IndexIn(s, x) == CHOOSE i \in 1..Len(s) : s[i] = x

\* the size-eligible holes of the output of a pass, in output order
KeptEligible(ps) == SelectSeq(HolesOf(ps.rings), InBand)

\* hole h of a decided pass was answered from the cache
FromCache(ps, h) == \E m \in 1..Len(ps.all) : ps.all[m].hole = h /\ ps.all[m].cached

\* invocation k queried hole a before hole b, in one pass
QueriedBefore(k, a, b) ==
    \E j1, j2 \in CallPositions(k) :
        /\ calls[k].log[j1].a = a /\ calls[k].log[j2].a = b
        /\ j1 < j2
        /\ calls[k].log[j1].c < calls[k].log[j2].c
        /\ \A m \in j1..j2 : calls[k].log[m].t # "Complete"

(* C38: among the size-eligible holes a strict pass keeps, every cache-hit *)
(* hole precedes every freshly queried hole in the output, each of the two *)
(* groups is in the order of the input, and the freshly queried holes are  *)
(* in the order of their requests.                                         *)
C38_CachedBeforeFresh ==
    \A k \in Inv :
        ~calls[k].skip =>
            \A q \in 1..Len(calls[k].passes) :
                LET ps == calls[k].passes[q]
                    out == KeptEligible(ps)
                    inp == HolesOf(ps.coords)
                IN  ps.decided =>
                        \A i, j \in 1..Len(out) :
                            i < j =>
                                /\ ~(~FromCache(ps, out[i]) /\ FromCache(ps, out[j]))
                                /\ (FromCache(ps, out[i]) = FromCache(ps, out[j])) =>
                                       IndexIn(inp, out[i]) < IndexIn(inp, out[j])
                                /\ (~FromCache(ps, out[i]) /\ ~FromCache(ps, out[j])) =>
                                       QueriedBefore(k, out[i], out[j])

\* a strict pass kept two cache-hit holes and two freshly queried ones, and
\* a cache-hit hole that was behind a fresh one in the input is ahead of it
\* in the output
C38_Witness ==
    \E k \in Inv :
        /\ Done(k) /\ ~calls[k].skip
        /\ \E q \in 1..Len(calls[k].passes) :
              LET ps == calls[k].passes[q]
                  out == KeptEligible(ps)
                  inp == HolesOf(ps.coords)
              IN  /\ ps.decided
                  /\ Cardinality({i \in 1..Len(out) : FromCache(ps, out[i])}) = 2
                  /\ Cardinality({i \in 1..Len(out) : ~FromCache(ps, out[i])}) = 2
                  /\ \E i, j \in 1..Len(out) :
                        /\ i < j
                        /\ FromCache(ps, out[i]) /\ ~FromCache(ps, out[j])
                        /\ IndexIn(inp, out[j]) < IndexIn(inp, out[i])

----------------------------------------------------------------------------
(* C39: whenever an existing area is present, the geometry mergeAreas      *)
(* returns covers the existing area on every return path: it is the union  *)
(* of the two geometries or the existing geometry, never the new polygon   *)
(* alone, also when the union operator returns no result.                  *)
C39_ResultCoversExisting ==
    (merged.called /\ ~Absent(merged.existingArea)) =>
        LET existingGeom == GeometryOf(merged.existingArea)
            newGeom == GeometryOf(merged.newPolygon)
        IN  /\ existingGeom.coordinates \subseteq merged.out.value.coordinates
            /\ \/ merged.out.value = existingGeom
               \/ merged.out.value.coordinates
                     = existingGeom.coordinates \cup newGeom.coordinates

====
